---------------------------- MODULE Spec2Model ----------------------------
(***************************************************************************)
(* A model of the tool-selection and response-orchestration pipeline of    *)
(* the MongoDB Atlas agentic RAG demo: planning.py (tool_selector,          *)
(* generate_response, get_llm_response), memory.py (the chat store) and    *)
(* tools.py (the retrieval tools and the calculator).                      *)
(*                                                                         *)
(* Text is a sequence of one-character strings, so that the substring,     *)
(* lower-casing and strip operations of the Python code are computed       *)
(* character by character.  A Python value is a tagged record.             *)
(***************************************************************************)
EXTENDS Integers, Sequences, FiniteSets, TLC

\* ------------------------------------------------------------------ text

\* The concatenation of a sequence of texts.
RECURSIVE Concat(_)
Concat(ss) == IF ss = <<>> THEN <<>> ELSE Head(ss) \o Concat(Tail(ss))

\* Python's `sub in s` on strings.
Contains(s, sub) ==
    \E i \in 0..(Len(s) - Len(sub)) : SubSeq(s, i + 1, i + Len(sub)) = sub

UpperChars == <<"A","B","C","D","E","F","G","H","I","J","K","L","M",
                "N","O","P","Q","R","S","T","U","V","W","X","Y","Z">>
LowerChars == <<"a","b","c","d","e","f","g","h","i","j","k","l","m",
                "n","o","p","q","r","s","t","u","v","w","x","y","z">>

LowerChar(c) ==
    IF \E i \in DOMAIN UpperChars : UpperChars[i] = c
    THEN LowerChars[CHOOSE i \in DOMAIN UpperChars : UpperChars[i] = c]
    ELSE c

\* Python's str.lower() (ASCII letters).
Lower(s) == [i \in 1..Len(s) |-> LowerChar(s[i])]

\* The characters str.strip() removes.
Whitespace == {" ", "\t", "\n", "\r", "\f"}

RECURSIVE LStrip(_)
LStrip(s) == IF s # <<>> /\ Head(s) \in Whitespace THEN LStrip(Tail(s)) ELSE s

RECURSIVE RStrip(_)
RStrip(s) ==
    IF s # <<>> /\ s[Len(s)] \in Whitespace
    THEN RStrip(SubSeq(s, 1, Len(s) - 1))
    ELSE s

\* Python's str.strip().
Strip(s) == RStrip(LStrip(s))

\* Python's any(keyword in text for keyword in keywords).
AnyKeywordIn(keywords, text) ==
    \E k \in DOMAIN keywords : Contains(text, keywords[k])

DigitChars == <<"0","1","2","3","4","5","6","7","8","9">>

\* Python's str(n) of an integer.
RECURSIVE IntStr(_)
IntStr(n) ==
    IF n < 0 THEN <<"-">> \o IntStr(0 - n)
    ELSE IF n < Len(DigitChars) THEN <<DigitChars[n + 1]>>
    ELSE IntStr(n \div Len(DigitChars)) \o <<DigitChars[(n % Len(DigitChars)) + 1]>>

\* --------------------------------------------------------- Python values

Str(s)  == [t |-> "str", s |-> s]
Num(n)  == [t |-> "int", n |-> n]
NoneV   == [t |-> "none"]
ListV(l) == [t |-> "list", l |-> l]
\* A dict is the sequence of its <<key, value>> items in insertion order.
DictV(d) == [t |-> "dict", d |-> d]

IsStr(v)  == v.t = "str"
IsDict(v) == v.t = "dict"

\* Python's truth value of an object (`not v` is ~Truthy(v)).
Truthy(v) ==
    CASE v.t = "str"  -> v.s # <<>>
      [] v.t = "int"  -> v.n # 0
      [] v.t = "none" -> FALSE
      [] v.t = "list" -> v.l # <<>>
      [] v.t = "dict" -> v.d # <<>>

\* `key in d` for a dict d.
DictHas(d, key) == \E i \in DOMAIN d.d : d.d[i][1] = key

\* d[key] for a key of d.
DictItem(d, key) == d.d[CHOOSE i \in DOMAIN d.d : d.d[i][1] = key][2]

\* d.get(key, default)
DictGet(d, key, default) == IF DictHas(d, key) THEN DictItem(d, key) ELSE default

\* ", ".join(parts)
RECURSIVE JoinComma(_)
JoinComma(parts) ==
    IF parts = <<>> THEN <<>>
    ELSE IF Len(parts) = 1 THEN Head(parts)
    ELSE Head(parts) \o <<",", " ">> \o JoinComma(Tail(parts))

\* Python's repr(v), for strings without quotes or escapes in them.
RECURSIVE PyRepr(_)
PyRepr(v) ==
    CASE v.t = "str"  -> <<"'">> \o v.s \o <<"'">>
      [] v.t = "int"  -> IntStr(v.n)
      [] v.t = "none" -> <<"N","o","n","e">>
      [] v.t = "list" ->
            <<"[">> \o JoinComma([i \in DOMAIN v.l |-> PyRepr(v.l[i])]) \o <<"]">>
      [] v.t = "dict" ->
            <<"{">> \o JoinComma([i \in DOMAIN v.d |->
                        <<"'">> \o v.d[i][1] \o <<"'", ":", " ">> \o PyRepr(v.d[i][2])])
                   \o <<"}">>

\* Python's str(v).
PyStr(v) == IF IsStr(v) THEN v.s ELSE PyRepr(v)

\* --------------------------------------------------- names and keywords

vector_search_tool_name     == <<"v","e","c","t","o","r","_","s","e","a","r","c","h","_","t","o","o","l">>
calculator_tool_name   == <<"c","a","l","c","u","l","a","t","o","r","_","t","o","o","l">>
web_search_tool_name        == <<"w","e","b","_","s","e","a","r","c","h","_","t","o","o","l">>
document_analysis_tool_name == <<"d","o","c","u","m","e","n","t","_","a","n","a","l","y","s","i","s","_","t","o","o","l">>
hybrid_search_tool_name     == <<"h","y","b","r","i","d","_","s","e","a","r","c","h","_","t","o","o","l">>
none_tool              == <<"n","o","n","e">>

\* The five tool names in the order the fallback parsing tests them.
FallbackOrder ==
    <<vector_search_tool_name, calculator_tool_name, web_search_tool_name,
      document_analysis_tool_name, hybrid_search_tool_name>>

key_tool  == <<"t","o","o","l">>
key_input == <<"i","n","p","u","t">>
key_query == <<"q","u","e","r","y">>

mongodb_keywords ==
    <<<<"m","o","n","g","o","d","b">>, <<"a","t","l","a","s">>, <<"v","e","c","t","o","r">>, <<"d","a","t","a","b","a","s","e">>, <<"s","e","a","r","c","h">>,
      <<"a","c","q","u","i","s","i","t","i","o","n">>, <<"r","e","v","e","n","u","e">>, <<"e","a","r","n","i","n","g","s">>, <<"f","i","n","a","n","c","i","a","l">>>>

general_knowledge_keywords ==
    <<<<"c","o","u","n","t","r","y">>, <<"p","l","a","y","s">>, <<"f","o","o","t","b","a","l","l">>, <<"s","o","c","c","e","r">>, <<"t","e","a","m">>, <<"c","l","u","b">>,
      <<"s","p","o","r","t">>, <<"m","o","v","i","e">>, <<"a","c","t","o","r">>, <<"c","i","t","y">>, <<"c","a","p","i","t","a","l">>, <<"p","o","p","u","l","a","t","i","o","n">>,
      <<"p","r","e","s","i","d","e","n","t">>, <<"p","r","i","m","e"," ","m","i","n","i","s","t","e","r">>, <<"c","o","o","k">>, <<"r","e","c","i","p","e">>, <<"w","e","a","t","h","e","r">>,
      <<"t","i","m","e">>, <<"e","x","p","l","a","i","n">>, <<"h","o","w"," ","t","o">>, <<"w","h","a","t"," ","i","s">>, <<"w","h","o"," ","i","s">>,
      <<"w","h","e","r","e"," ","i","s">>, <<"w","h","e","n"," ","i","s">>, <<"w","h","y"," ","i","s">>>>

\* ------------------------------------------------------- tool_selector

\* An exception leaving a block of code, and a normal result of the block.
Raised == [exc |-> TRUE]
Selected(tool, input) == [exc |-> FALSE, tool |-> tool, input |-> input]

\* The fallback parsing of a response json.loads rejects: the first tool name,
\* in the order of the if/elif chain, that occurs in the raw response.
ParseFallback(tool_response) ==
    IF \E i \in DOMAIN FallbackOrder : Contains(tool_response, FallbackOrder[i])
    THEN FallbackOrder[CHOOSE i \in DOMAIN FallbackOrder :
            /\ Contains(tool_response, FallbackOrder[i])
            /\ \A j \in 1..(i - 1) : ~Contains(tool_response, FallbackOrder[j])]
    ELSE none_tool

\* The normalisation of the "input" of a decision whose tool is not "none".
\* user_input is the utterance (a text); the result is Raised when
\* tool_input.strip() is called on an object that is not a string.
NormalizeInput(tool_input, user_input) ==
    LET extracted ==
            IF IsDict(tool_input)
            THEN IF DictHas(tool_input, key_query) THEN DictItem(tool_input, key_query)
                 ELSE IF DictHas(tool_input, key_input) THEN DictItem(tool_input, key_input)
                 ELSE Str(PyStr(tool_input))
            ELSE IF ~IsStr(tool_input) THEN Str(PyStr(tool_input))
            ELSE tool_input
    IN  IF ~Truthy(extracted) THEN [exc |-> FALSE, input |-> Str(user_input)]
        ELSE IF ~IsStr(extracted) THEN Raised
        ELSE IF ~Truthy(Str(Strip(extracted.s)))
             THEN [exc |-> FALSE, input |-> Str(user_input)]
             ELSE [exc |-> FALSE, input |-> extracted]

\* The decision read from the response of the chat completion: the body of
\* the inner try with its except json.JSONDecodeError.  The response is
\*   [kind |-> "no_content"]            message.content is None
\*   [kind |-> "text", raw |-> r]       json.loads(r) raises JSONDecodeError
\*   [kind |-> "json", val |-> v]       json.loads returns v
ParseDecision(response, user_input) ==
    CASE response.kind = "no_content" -> Raised
      [] response.kind = "text" ->
            Selected(Str(ParseFallback(response.raw)), Str(user_input))
      [] response.kind = "json" ->
            IF ~IsDict(response.val) THEN Raised
            ELSE LET selected_tool == DictGet(response.val, key_tool, Str(none_tool))
                     tool_input    == DictGet(response.val, key_input, Str(user_input))
                     normalized    == NormalizeInput(tool_input, user_input)
                 IN  IF selected_tool # Str(none_tool)
                     THEN IF normalized.exc THEN Raised
                          ELSE Selected(selected_tool, normalized.input)
                     ELSE Selected(selected_tool, tool_input)

\* A variant of OverrideWebSearch that tests the utterance as typed, without
\* lower-casing it.
OverrideWebSearch_CaseSensitive(selected_tool, user_input) ==
    IF selected_tool = Str(web_search_tool_name)
       /\ AnyKeywordIn(mongodb_keywords, user_input)
    THEN Str(vector_search_tool_name)
    ELSE selected_tool

\* The first override: web_search_tool becomes vector_search_tool when the
\* utterance holds a keyword of mongodb_keywords.
OverrideWebSearch(selected_tool, user_input) ==
    IF selected_tool = Str(web_search_tool_name)
       /\ AnyKeywordIn(mongodb_keywords, Lower(user_input))
    THEN Str(vector_search_tool_name)
    ELSE selected_tool

\* A variant of OverrideNone that promotes "none" only when the utterance
\* holds no domain keyword.
OverrideNone_UnlessDomain(selected_tool, user_input) ==
    IF selected_tool = Str(none_tool)
       /\ AnyKeywordIn(general_knowledge_keywords, Lower(user_input))
       /\ ~AnyKeywordIn(mongodb_keywords, Lower(user_input))
    THEN Str(web_search_tool_name)
    ELSE selected_tool

\* The second override: "none" becomes web_search_tool when the utterance
\* holds a keyword of general_knowledge_keywords.
OverrideNone(selected_tool, user_input) ==
    IF selected_tool = Str(none_tool)
       /\ AnyKeywordIn(general_knowledge_keywords, Lower(user_input))
    THEN Str(web_search_tool_name)
    ELSE selected_tool

\* The two overrides in the order of the code.
ApplyOverrides(selected_tool, user_input) ==
    OverrideNone(OverrideWebSearch(selected_tool, user_input), user_input)

\* A variant of KeywordFallback that tests the general-knowledge keywords
\* before the domain keywords.
KeywordFallback_GeneralFirst(user_input) ==
    IF AnyKeywordIn(general_knowledge_keywords, Lower(user_input))
    THEN Selected(Str(web_search_tool_name), Str(user_input))
    ELSE IF AnyKeywordIn(mongodb_keywords, Lower(user_input))
    THEN Selected(Str(vector_search_tool_name), Str(user_input))
    ELSE Selected(Str(none_tool), Str(user_input))

\* The handler of the outer except: the selection by keywords alone.
KeywordFallback(user_input) ==
    IF AnyKeywordIn(mongodb_keywords, Lower(user_input))
    THEN Selected(Str(vector_search_tool_name), Str(user_input))
    ELSE IF AnyKeywordIn(general_knowledge_keywords, Lower(user_input))
    THEN Selected(Str(web_search_tool_name), Str(user_input))
    ELSE Selected(Str(none_tool), Str(user_input))

\* The body of the outer try: the remote call, the parse, the overrides.
\* outcome is [kind |-> "error"] when the remote call raises, and the
\* response otherwise.
SelectorBody(user_input, outcome) ==
    IF outcome.kind = "error" THEN Raised
    ELSE LET decision == ParseDecision(outcome, user_input)
         IN  IF decision.exc THEN Raised
             ELSE Selected(ApplyOverrides(decision.tool, user_input), decision.input)

\* tool_selector(user_input, session_history) for an outcome of its remote
\* call.  The result records, beside the returned pair (tool, input):
\*   raised  whether an exception leaves the function,
\*   parsed  the decision before the overrides ("handler" when the outer
\*           except handler produced the result),
\*   calls   the number of chat completion calls issued.
tool_selector(user_input, outcome) ==
    LET body    == SelectorBody(user_input, outcome)
        handled == KeywordFallback(user_input)
        parsed  == IF outcome.kind = "error" THEN Raised
                   ELSE ParseDecision(outcome, user_input)
    IN  IF body.exc
        THEN [tool |-> handled.tool, input |-> handled.input, raised |-> FALSE,
              parsed |-> [t |-> "handler"], calls |-> 1]
        ELSE [tool |-> body.tool, input |-> body.input, raised |-> FALSE,
              parsed |-> parsed.tool, calls |-> 1]

\* --------------------------------------------------------------- memory.py

\* A value returned by a function, beside Raised.
Returned(v) == [exc |-> FALSE, value |-> v]

\* The readings datetime.now() can give when the last reading was `now`: the
\* same millisecond or a later one, up to the bound of the model.
ClockReadings(now, max) == {now} \cup (IF now < max THEN {now + 1} ELSE {})

\* The document store_chat_message builds (metadata or {} is the empty dict).
ChatMessage(session_id, role, content, timestamp) ==
    [session_id |-> session_id, role |-> role, content |-> content,
     timestamp |-> timestamp, metadata |-> <<>>]

\* memory_collection.insert_one(doc): the collection with doc appended, or
\* an exception when the store fails.
InsertOne(collection, doc, ok) ==
    IF ok THEN Returned(Append(collection, doc)) ELSE Raised

\* A variant of store_chat_message without the try/except around the insert.
store_chat_message_Uncaught(collection, session_id, role, content, timestamp, ok) ==
    InsertOne(collection, ChatMessage(session_id, role, content, timestamp), ok)

\* A variant of store_chat_message that keeps one newest message per session
\* and role: an insert after a message of the same session and role
\* replaces it.
store_chat_message_Upsert(collection, session_id, role, content, timestamp, ok) ==
    LET message == ChatMessage(session_id, role, content, timestamp)
        n       == Len(collection)
    IN  IF ~ok THEN Returned(collection)
        ELSE IF n > 0 /\ collection[n].session_id = session_id /\ collection[n].role = role
             THEN Returned(Append(SubSeq(collection, 1, n - 1), message))
             ELSE Returned(Append(collection, message))

\* store_chat_message(session_id, role, content): the collection afterwards.
store_chat_message(collection, session_id, role, content, timestamp, ok) ==
    LET message  == ChatMessage(session_id, role, content, timestamp)
        inserted == InsertOne(collection, message, ok)
    IN  IF inserted.exc THEN Returned(collection) ELSE inserted

\* A variant of the query without its filter on session_id.
Matching_AnySession(collection, session_id) == collection

\* The documents of a session, in the order of insertion.
Matching(collection, session_id) ==
    SelectSeq(collection, LAMBDA doc : doc.session_id = session_id)

\* The orders in which the documents docs[i], i \in S, are sorted by
\* ascending timestamp: documents with equal timestamps come in any order.
RECURSIVE OrdersOf(_, _)
OrdersOf(docs, S) ==
    IF S = {} THEN {<<>>}
    ELSE UNION { { <<docs[i]>> \o rest : rest \in OrdersOf(docs, S \ {i}) } :
                 i \in { i \in S : \A j \in S : docs[i].timestamp <= docs[j].timestamp } }

SortedByTimestamp(docs) == OrdersOf(docs, DOMAIN docs)

\* The outcomes of memory_collection.find({"session_id": s}).sort("timestamp", 1):
\* an exception when the store fails, or the documents in a sorted order.
FindSession(collection, session_id) ==
    {Raised} \cup { Returned(docs) : docs \in SortedByTimestamp(Matching(collection, session_id)) }

\* cursor.limit(limit) under `if limit:` (limit None is 0 here).
Limited(docs, limit) ==
    IF limit # 0 /\ limit < Len(docs) THEN SubSeq(docs, 1, limit) ELSE docs

\* retrieve_session_history(session_id, limit) for an outcome of its find:
\* msg["role"] raises KeyError on a document without a role, and every
\* exception gives the empty list.
retrieve_session_history(cursor, limit) ==
    IF cursor.exc THEN Returned(<<>>)
    ELSE LET docs == Limited(cursor.value, limit)
         IN  IF \E i \in DOMAIN docs :
                    ~({"role", "content", "timestamp"} \subseteq DOMAIN docs[i])
             THEN Returned(<<>>)
             ELSE Returned([i \in DOMAIN docs |->
                    [role |-> docs[i].role, content |-> docs[i].content,
                     timestamp |-> docs[i].timestamp,
                     metadata |-> IF "metadata" \in DOMAIN docs[i]
                                  THEN docs[i].metadata ELSE <<>>]])

important_fact   == <<"i","m","p","o","r","t","a","n","t","_","f","a","c","t">>
long_term_prefix == <<"l","o","n","g","_","t","e","r","m","_">>

\* store_important_facts(session_id, facts): one insert per fact, each with
\* its own clock reading; the first failing insert ends the loop.  `stamps`
\* are the readings of the inserts that succeed (all of them when
\* Len(stamps) = Len(facts)).
store_important_facts(collection, session_id, facts, stamps) ==
    Returned(collection \o
        [i \in DOMAIN stamps |->
            [session_id |-> session_id, type |-> important_fact,
             content |-> facts[i], timestamp |-> stamps[i]]])

\* store_long_term_memory(session_id, memory_type, content)
store_long_term_memory(collection, session_id, memory_type, content, timestamp, ok) ==
    LET inserted ==
            InsertOne(collection,
                      [session_id |-> session_id,
                       type |-> long_term_prefix \o memory_type,
                       content |-> content, timestamp |-> timestamp,
                       persistent |-> TRUE], ok)
    IN  IF inserted.exc THEN Returned(collection) ELSE inserted

\* The number of records retrieve_long_term_memory returns at most.
long_term_limit == 10

\* seq in the opposite order.
Reversed(seq) == [i \in DOMAIN seq |-> seq[Len(seq) + 1 - i]]

\* The outcomes of find({"type": "long_term_" + memory_type, "persistent":
\* True}).sort("timestamp", -1): an exception when the store fails, or the
\* records of every session in an order of non-increasing timestamp.
FindLongTerm(collection, memory_type) ==
    LET found == SelectSeq(collection,
                    LAMBDA doc : /\ {"type", "persistent"} \subseteq DOMAIN doc
                                 /\ doc.type = long_term_prefix \o memory_type
                                 /\ doc.persistent = TRUE)
    IN  {Raised} \cup { Returned(Reversed(docs)) : docs \in SortedByTimestamp(found) }

\* retrieve_long_term_memory(memory_type, limit) for an outcome of its find:
\* the documents as they are stored, the empty list on an exception.
retrieve_long_term_memory(cursor, limit) ==
    IF cursor.exc THEN Returned(<<>>)
    ELSE Returned(IF limit < Len(cursor.value) THEN SubSeq(cursor.value, 1, limit)
                  ELSE cursor.value)

\* A variant of clear_session_memory that deletes one document (delete_one).
clear_session_memory_DeleteOne(collection, session_id, ok) ==
    IF ~ok THEN [exc |-> FALSE, value |-> FALSE, collection |-> collection]
    ELSE LET found == { i \in DOMAIN collection : collection[i].session_id = session_id }
             first == CHOOSE i \in found : \A j \in found : i <= j
         IN  [exc |-> FALSE, value |-> found # {},
              collection |-> IF found = {} THEN collection
                             ELSE SubSeq(collection, 1, first - 1)
                                    \o SubSeq(collection, first + 1, Len(collection))]

\* clear_session_memory(session_id): the collection afterwards and the
\* returned flag (deleted_count > 0, False when delete_many fails).
clear_session_memory(collection, session_id, ok) ==
    IF ~ok THEN [exc |-> FALSE, value |-> FALSE, collection |-> collection]
    ELSE [exc |-> FALSE,
          value |-> Matching(collection, session_id) # <<>>,
          collection |-> SelectSeq(collection, LAMBDA doc : doc.session_id # session_id)]

\* The text of a role.
RoleText(role) ==
    CASE role = "user"      -> <<"u","s","e","r">>
      [] role = "assistant" -> <<"a","s","s","i","s","t","a","n","t">>
      [] role = "system"    -> <<"s","y","s","t","e","m">>

\* sep.join(parts)
RECURSIVE Join(_, _)
Join(sep, parts) ==
    IF parts = <<>> THEN <<>>
    ELSE IF Len(parts) = 1 THEN parts[1]
    ELSE parts[1] \o sep \o Join(sep, Tail(parts))

\* messages[-n:]
LastN(messages, n) ==
    IF Len(messages) <= n THEN messages
    ELSE SubSeq(messages, Len(messages) - n + 1, Len(messages))

\* "\n".join(f"{msg['role']}: {msg['content']}" for msg in messages)
ConversationText(messages) ==
    Join(<<"\n">>, [i \in DOMAIN messages |->
            RoleText(messages[i].role) \o <<":", " ">> \o messages[i].content])

\* A remote chat completion: it fails, or it answers with a text.
RemoteError == [kind |-> "error"]
RemoteText(content) == [kind |-> "content", content |-> content]

\* The number of messages get_session_summary summarizes.
summary_window == 10

no_history_text     == <<"N","o"," ","p","r","e","v","i","o","u","s"," ","c","o","n","v","e","r","s","a","t","i","o","n"," ","h","i","s","t","o","r","y",".">>
unable_summary_text == <<"U","n","a","b","l","e"," ","t","o"," ","g","e","n","e","r","a","t","e"," ","s","e","s","s","i","o","n"," ","s","u","m","m","a","r","y",".">>
conversation_prefix == <<"C","o","n","v","e","r","s","a","t","i","o","n",":","\n">>

\* get_session_summary(session_id) for an outcome of its find and of its
\* remote call: the summary, the number of remote calls and the conversation
\* text sent.
get_session_summary(cursor, llm) ==
    LET messages == retrieve_session_history(cursor, 0).value
    IN  IF messages = <<>>
        THEN [exc |-> FALSE, value |-> no_history_text, calls |-> 0, sent |-> <<>>]
        ELSE [exc |-> FALSE,
              value |-> IF llm.kind = "error" THEN unable_summary_text ELSE llm.content,
              calls |-> 1,
              sent |-> conversation_prefix \o ConversationText(LastN(messages, summary_window))]

key_raw_preferences == <<"r","a","w","_","p","r","e","f","e","r","e","n","c","e","s">>

\* get_user_preferences(session_id) for an outcome of its find and of its
\* remote call; llm.parsed is what json.loads makes of the answer (Raised
\* when it is no JSON).
get_user_preferences(cursor, llm) ==
    LET messages == retrieve_session_history(cursor, 0).value
    IN  IF messages = <<>>
        THEN [exc |-> FALSE, value |-> DictV(<<>>), calls |-> 0]
        ELSE [exc |-> FALSE,
              value |-> IF llm.kind = "error" THEN DictV(<<>>)
                        ELSE IF llm.parsed.exc
                        THEN DictV(<< <<key_raw_preferences, Str(llm.content)>> >>)
                        ELSE llm.parsed.value,
              calls |-> 1]

\* ------------------------------------------------- tools.py: calculator

\* The characters calculator_tool accepts: set('0123456789+-*/.() ').
safe_chars ==
    {"0","1","2","3","4","5","6","7","8","9","+","-","*","/",".","(",")"," "}

\* The substrings it refuses.
unsafe_functions == <<<<"i","m","p","o","r","t">>, <<"e","x","e","c">>, <<"e","v","a","l">>, <<"_","_">>>>

invalid_characters_text == <<"E","r","r","o","r",":"," ","I","n","v","a","l","i","d"," ","c","h","a","r","a","c","t","e","r","s"," ","i","n"," ","m","a","t","h","e","m","a","t","i","c","a","l"," ","e","x","p","r","e","s","s","i","o","n">>
unsafe_expression_text  == <<"E","r","r","o","r",":"," ","P","o","t","e","n","t","i","a","l","l","y"," ","u","n","s","a","f","e"," ","e","x","p","r","e","s","s","i","o","n">>
error_prefix            == <<"E","r","r","o","r",":"," ">>

\* The values of the arithmetic of eval: an int n (d = 1, f = FALSE), a float
\* n/d with d a power of two (f = TRUE), the empty tuple, and the exception
\* an operation raised.  z marks the float -0.0.
IntVal(n)         == [t |-> "num", n |-> n, d |-> 1, f |-> FALSE, z |-> FALSE]
FloatVal(n, d, z) == [t |-> "num", n |-> n, d |-> d, f |-> TRUE, z |-> z]
EmptyTuple     == [t |-> "tuple"]
ErrVal(kind)   == [t |-> "error", kind |-> kind]

\* Expressions outside the arithmetic modelled here (a decimal point, ** and
\* //, a float that is no dyadic fraction) have no value in this model.
Unsupported == CHOOSE v \in {} : TRUE

Abs(n) == IF n < 0 THEN 0 - n ELSE n

RECURSIVE Gcd(_, _)
Gcd(a, b) == IF b = 0 THEN a ELSE Gcd(b, a % b)

RECURSIVE IsPowerOfTwo(_)
IsPowerOfTwo(d) == d = 1 \/ (d > 1 /\ d % 2 = 0 /\ IsPowerOfTwo(d \div 2))

\* The float n/d (d > 0), reduced; a zero takes the sign negative_zero.
Ratio(n, d, negative_zero) ==
    LET g == Gcd(Abs(n), d)
    IN  IF IsPowerOfTwo(d \div g)
        THEN FloatVal(n \div g, d \div g, n = 0 /\ negative_zero)
        ELSE Unsupported

\* The sign bit of a number.
Negative(v) == v.n < 0 \/ v.z

\* The first exception among the operands (left to right), or no exception.
FirstError(a, b) ==
    IF a.t = "error" THEN a ELSE IF b.t = "error" THEN b ELSE [t |-> "none"]

\* a + b and a - b (sign is 1 or -1).
AddVal(a, b, sign) ==
    IF FirstError(a, b).t = "error" THEN FirstError(a, b)
    ELSE IF a.t = "tuple" /\ b.t = "tuple" /\ sign = 1 THEN EmptyTuple
    ELSE IF a.t = "tuple" \/ b.t = "tuple" THEN ErrVal("type")
    ELSE IF a.f \/ b.f
    THEN Ratio(a.n * b.d + sign * b.n * a.d, a.d * b.d,
               a.z /\ (IF sign = 1 THEN b.z ELSE b.f /\ b.n = 0 /\ ~b.z))
    ELSE IntVal(a.n + sign * b.n)

\* a * b
MulVal(a, b) ==
    IF FirstError(a, b).t = "error" THEN FirstError(a, b)
    ELSE IF a.t = "tuple" /\ b.t = "tuple" THEN ErrVal("type")
    ELSE IF a.t = "tuple" THEN (IF b.f THEN ErrVal("type") ELSE EmptyTuple)
    ELSE IF b.t = "tuple" THEN (IF a.f THEN ErrVal("type") ELSE EmptyTuple)
    ELSE IF a.f \/ b.f THEN Ratio(a.n * b.n, a.d * b.d, Negative(a) # Negative(b))
    ELSE IntVal(a.n * b.n)

\* a / b: true division, a float.
DivVal(a, b) ==
    IF FirstError(a, b).t = "error" THEN FirstError(a, b)
    ELSE IF a.t = "tuple" \/ b.t = "tuple" THEN ErrVal("type")
    ELSE IF b.n = 0 THEN ErrVal("zero_division")
    ELSE IF b.n < 0 THEN Ratio((0 - a.n) * b.d, a.d * (0 - b.n), Negative(a) # Negative(b))
    ELSE Ratio(a.n * b.d, a.d * b.n, Negative(a) # Negative(b))

\* -a and +a
NegVal(a, sign) ==
    IF a.t = "error" THEN a
    ELSE IF a.t = "tuple" THEN ErrVal("type")
    ELSE [a EXCEPT !.n = sign * a.n,
                   !.z = IF sign = -1 /\ a.f /\ a.n = 0 THEN ~a.z ELSE a.z]

\* callee(argument): no value of this arithmetic can be called.
CallVal(callee, argument) ==
    IF FirstError(callee, argument).t = "error" THEN FirstError(callee, argument)
    ELSE ErrVal("type")

IsDigit(c) == \E i \in DOMAIN DigitChars : DigitChars[i] = c
DigitValue(c) == (CHOOSE i \in DOMAIN DigitChars : DigitChars[i] = c) - 1

\* The position of the first character of s at or after pos that is no space
\* (Len(s) + 1 when there is none).
RECURSIVE SkipSpaces(_, _)
SkipSpaces(s, pos) ==
    IF pos <= Len(s) /\ s[pos] = " " THEN SkipSpaces(s, pos + 1) ELSE pos

\* The position after the digits that start at pos.
RECURSIVE EndOfDigits(_, _)
EndOfDigits(s, pos) ==
    IF pos <= Len(s) /\ IsDigit(s[pos]) THEN EndOfDigits(s, pos + 1) ELSE pos

\* The value of the digits s[from..to].
RECURSIVE DigitsValue(_, _, _)
DigitsValue(s, from, to) ==
    IF to < from THEN 0
    ELSE DigitsValue(s, from, to - 1) * Len(DigitChars) + DigitValue(s[to])

\* The character of s at pos ("" past the end).
At(s, pos) == IF pos <= Len(s) THEN s[pos] ELSE ""

\* A variant of Precedence in which * and / bind like + and -.
Precedence_Flat(op) ==
    CASE op \in {"+", "-", "*", "/"} -> 1
      [] op \in {"u+", "u-"}         -> 3
      [] OTHER                       -> 0

\* The operators waiting on the stack of the evaluation: the binary + - * /,
\* the unary "u+" and "u-", an open parenthesis "(" and an open call "call".
Precedence(op) ==
    CASE op \in {"+", "-"}   -> 1
      [] op \in {"*", "/"}   -> 2
      [] op \in {"u+", "u-"} -> 3
      [] OTHER               -> 0

\* The stack of values after the operator op is applied to its top.
ApplyTop(vals, op) ==
    LET n == Len(vals)
    IN  IF op \in {"u+", "u-"}
        THEN [vals EXCEPT ![n] = NegVal(vals[n], IF op = "u-" THEN -1 ELSE 1)]
        ELSE Append(SubSeq(vals, 1, n - 2),
                    CASE op = "+" -> AddVal(vals[n - 1], vals[n], 1)
                      [] op = "-" -> AddVal(vals[n - 1], vals[n], -1)
                      [] op = "*" -> MulVal(vals[n - 1], vals[n])
                      [] op = "/" -> DivVal(vals[n - 1], vals[n]))

\* The stacks after every waiting operator that binds at least as tightly as
\* prec (>= 1) is applied; an open parenthesis or call stops it.
RECURSIVE Reduce(_, _, _)
Reduce(vals, ops, prec) ==
    IF ops = <<>> \/ Precedence(ops[Len(ops)]) < prec \/ Precedence(ops[Len(ops)]) = 0
    THEN [vals |-> vals, ops |-> ops]
    ELSE Reduce(ApplyTop(vals, ops[Len(ops)]), SubSeq(ops, 1, Len(ops) - 1), prec)

\* One step of the evaluation of s.  st.pos is the next character,
\* st.operand tells whether an operand is expected there, st.status is
\* "run", "done" or "syntax".
EvalStep(s, st) ==
    LET c    == At(s, st.pos)
        next == SkipSpaces(s, st.pos + 1)
        n    == Len(st.vals)
    IN  IF c = " " THEN [st EXCEPT !.pos = st.pos + 1]
        ELSE IF c = "." THEN Unsupported
        ELSE IF st.operand
        THEN IF IsDigit(c)
             THEN LET e == EndOfDigits(s, st.pos)
                  IN  \* a decimal integer does not start with 0, unless it is zero
                      IF At(s, e) = "." THEN Unsupported
                      ELSE IF c = "0" /\ DigitsValue(s, st.pos, e - 1) # 0
                      THEN [st EXCEPT !.status = "syntax"]
                      ELSE [st EXCEPT !.pos = e, !.operand = FALSE,
                              !.vals = Append(@, IntVal(DigitsValue(s, st.pos, e - 1)))]
             ELSE IF c = "+" \/ c = "-"
             THEN [st EXCEPT !.pos = st.pos + 1, !.ops = Append(@, "u" \o c)]
             ELSE IF c = "(" /\ At(s, next) = ")"
             THEN [st EXCEPT !.pos = next + 1, !.operand = FALSE,
                             !.vals = Append(@, EmptyTuple)]
             ELSE IF c = "("
             THEN [st EXCEPT !.pos = st.pos + 1, !.ops = Append(@, "(")]
             ELSE [st EXCEPT !.status = "syntax"]
        ELSE IF c = ""
        THEN LET r == Reduce(st.vals, st.ops, 1)
             IN  IF r.ops # <<>> THEN [st EXCEPT !.status = "syntax"]
                 ELSE [st EXCEPT !.status = "done", !.vals = r.vals, !.ops = r.ops]
        ELSE IF c \in {"+", "-", "*", "/"}
        THEN IF c \in {"*", "/"} /\ At(s, st.pos + 1) = c THEN Unsupported
             ELSE LET r == Reduce(st.vals, st.ops, Precedence(c))
                  IN  [st EXCEPT !.pos = st.pos + 1, !.operand = TRUE,
                                 !.vals = r.vals, !.ops = Append(r.ops, c)]
        ELSE IF c = ")"
        THEN LET r == Reduce(st.vals, st.ops, 1)
                 m == Len(r.vals)
             IN  IF r.ops = <<>> THEN [st EXCEPT !.status = "syntax"]
                 ELSE [st EXCEPT !.pos = st.pos + 1,
                          !.ops = SubSeq(r.ops, 1, Len(r.ops) - 1),
                          !.vals = IF r.ops[Len(r.ops)] = "call"
                                   THEN Append(SubSeq(r.vals, 1, m - 2),
                                               CallVal(r.vals[m - 1], r.vals[m]))
                                   ELSE r.vals]
        ELSE IF c = "(" /\ At(s, next) = ")"
        THEN [st EXCEPT !.pos = next + 1,
                        !.vals[n] = CallVal(st.vals[n], [t |-> "none"])]
        ELSE IF c = "("
        THEN [st EXCEPT !.pos = st.pos + 1, !.operand = TRUE, !.ops = Append(@, "call")]
        ELSE [st EXCEPT !.status = "syntax"]

RECURSIVE EvalRun(_, _)
EvalRun(s, st) == IF st.status # "run" THEN st ELSE EvalRun(s, EvalStep(s, st))

\* eval(s) of an arithmetic expression: the value, or the exception raised
\* (a syntax error comes before any error of the evaluation).
PyEval(s) ==
    LET end == EvalRun(s, [pos |-> 1, vals |-> <<>>, ops |-> <<>>,
                           operand |-> TRUE, status |-> "run"])
    IN  IF end.status = "syntax" THEN ErrVal("syntax") ELSE end.vals[1]

\* The digits of the fraction r/d (0 <= r < d, d a power of two).
RECURSIVE FractionDigits(_, _)
FractionDigits(r, d) ==
    IF r = 0 THEN <<>>
    ELSE <<DigitChars[((r * Len(DigitChars)) \div d) + 1]>>
            \o FractionDigits((r * Len(DigitChars)) % d, d)

\* str(result) of a value of eval.
ValueStr(v) ==
    IF v.t = "tuple" THEN <<"(", ")">>
    ELSE IF ~v.f THEN IntStr(v.n)
    ELSE (IF Negative(v) THEN <<"-">> ELSE <<>>)
            \o IntStr(Abs(v.n) \div v.d) \o <<".">>
            \o (IF Abs(v.n) % v.d = 0 THEN <<"0">> ELSE FractionDigits(Abs(v.n) % v.d, v.d))

\* str(e) of the exception eval raised.  The wording of a SyntaxError
\* depends on the error and on the interpreter: one wording stands for all.
ErrorStr(kind) ==
    CASE kind = "zero_division" -> <<"d","i","v","i","s","i","o","n"," ","b","y"," ","z","e","r","o">>
      [] kind = "type"          -> <<"'","i","n","t","'"," ","o","b","j","e","c","t"," ","i","s"," ","n","o","t"," ","c","a","l","l","a","b","l","e">>
      [] kind = "syntax"        -> <<"i","n","v","a","l","i","d"," ","s","y","n","t","a","x"," ","(","<","s","t","r","i","n","g",">",","," ","l","i","n","e"," ","1",")">>

\* A text calculator_tool returns, after `evals` calls of eval.
CalculatorText(text, evals) == [exc |-> FALSE, value |-> text, evals |-> evals]

\* A variant of calculator_tool without the try/except around eval.
calculator_tool_Uncaught(user_input) ==
    IF ~IsStr(user_input) THEN Raised
    ELSE IF \E i \in DOMAIN user_input.s : user_input.s[i] \notin safe_chars
    THEN CalculatorText(invalid_characters_text, 0)
    ELSE IF AnyKeywordIn(unsafe_functions, Lower(user_input.s))
    THEN CalculatorText(unsafe_expression_text, 0)
    ELSE LET result == PyEval(user_input.s)
         IN  IF result.t = "error" THEN Raised
             ELSE CalculatorText(ValueStr(result), 1)

\* calculator_tool(user_input): the text it returns.  Iterating over an
\* object that is no string raises inside the try.
calculator_tool(user_input) ==
    IF ~IsStr(user_input) THEN CalculatorText(error_prefix \o ErrorStr("type"), 0)
    ELSE IF \E i \in DOMAIN user_input.s : user_input.s[i] \notin safe_chars
    THEN CalculatorText(invalid_characters_text, 0)
    ELSE IF AnyKeywordIn(unsafe_functions, Lower(user_input.s))
    THEN CalculatorText(unsafe_expression_text, 0)
    ELSE LET result == PyEval(user_input.s)
         IN  IF result.t = "error"
             THEN CalculatorText(error_prefix \o ErrorStr(result.kind), 1)
             ELSE CalculatorText(ValueStr(result), 1)

\* --------------------------------------------------- tools.py: the searches

\* The limit of vector_search_tool and hybrid_search_tool by default.
default_limit == 5

\* The number of characters get_embedding sends at most.
embedding_input_limit == 8000

\* The vector the remote embedding model returns (its numbers play no part).
Embedding == ListV(<<Num(1)>>)

\* docs[:n]
FirstN(docs, n) == IF Len(docs) <= n THEN docs ELSE SubSeq(docs, 1, n)

\* get_embedding(text) for an outcome ("ok" or "error") of the remote
\* embedding call: the vector or None, the number of remote calls, the text
\* sent.
get_embedding(text, outcome) ==
    IF ~Truthy(text) \/ ~IsStr(text) \/ Strip(PyStr(text)) = <<>>
    THEN [value |-> NoneV, calls |-> 0, sent |-> <<>>]
    ELSE [value |-> IF outcome = "ok" THEN Embedding ELSE NoneV,
          calls |-> 1,
          sent  |-> Strip(FirstN(text.s, embedding_input_limit))]

\* No result, after `calls` embedding calls and `queries` store queries.
NoDocuments(calls, queries) ==
    [exc |-> FALSE, value |-> <<>>, embed_calls |-> calls, store_queries |-> queries]

\* A variant of vector_search_tool without the test of the embedding: the
\* store is queried with whatever get_embedding returned.
vector_search_tool_QueryAnyway(user_input, limit, embed, aggregate) ==
    IF ~Truthy(user_input) THEN NoDocuments(0, 0)
    ELSE IF ~IsStr(user_input) THEN Raised
    ELSE IF Strip(user_input.s) = <<>> THEN NoDocuments(0, 0)
    ELSE LET query_embedding == get_embedding(user_input, embed)
         IN  IF aggregate.exc \/ ~Truthy(query_embedding.value)
             THEN NoDocuments(query_embedding.calls, 1)
             ELSE [exc |-> FALSE, value |-> FirstN(aggregate.value, limit),
                   embed_calls |-> query_embedding.calls, store_queries |-> 1]

\* vector_search_tool(user_input, limit) for an outcome of the embedding
\* call and of vector_collection.aggregate (Raised, or the documents ranked by
\* the index).  user_input.strip() is outside the try: an input that is
\* truthy and no string raises.
vector_search_tool(user_input, limit, embed, aggregate) ==
    IF ~Truthy(user_input) THEN NoDocuments(0, 0)
    ELSE IF ~IsStr(user_input) THEN Raised
    ELSE IF Strip(user_input.s) = <<>> THEN NoDocuments(0, 0)
    ELSE LET query_embedding == get_embedding(user_input, embed)
         IN  IF ~Truthy(query_embedding.value) THEN NoDocuments(query_embedding.calls, 0)
             ELSE IF aggregate.exc THEN NoDocuments(query_embedding.calls, 1)
             ELSE [exc |-> FALSE, value |-> FirstN(aggregate.value, limit),
                   embed_calls |-> query_embedding.calls, store_queries |-> 1]

\* result["search_type"] = search_type
Tagged(result, search_type) ==
    [text |-> result.text, metadata |-> result.metadata, search_type |-> search_type]

\* The loop over results: those whose text is not in seen_texts, tagged.
RECURSIVE Unseen(_, _, _)
Unseen(results, search_type, seen_texts) ==
    IF results = <<>> THEN <<>>
    ELSE IF Head(results).text \in seen_texts
    THEN Unseen(Tail(results), search_type, seen_texts)
    ELSE <<Tagged(Head(results), search_type)>>
            \o Unseen(Tail(results), search_type, seen_texts \cup {Head(results).text})

TextsIn(results) == { results[i].text : i \in DOMAIN results }

\* The try block of hybrid_search_tool.  env holds the outcomes of the
\* embedding call (embed), of the vector query (aggregate) and of the text
\* query (text: Raised, or the documents found).
HybridBody(user_input, limit, env) ==
    LET vector_results == vector_search_tool(user_input, limit, env.embed, env.aggregate)
    IN  IF vector_results.exc \/ env.text.exc THEN Raised
        ELSE LET from_vector == Unseen(vector_results.value, "vector", {})
                 from_text   == Unseen(FirstN(env.text.value, limit), "text",
                                       TextsIn(from_vector))
             IN  [exc |-> FALSE, value |-> FirstN(from_vector \o from_text, limit),
                  embed_calls |-> vector_results.embed_calls,
                  store_queries |-> vector_results.store_queries + 1]

\* A variant of hybrid_search_tool without the except.
hybrid_search_tool_Uncaught(user_input, limit, env) ==
    HybridBody(user_input, limit, env)

\* hybrid_search_tool(user_input, limit): on any exception of the try block,
\* vector_search_tool is called again (with the outcomes fallback_embed and
\* fallback_aggregate).
hybrid_search_tool(user_input, limit, env) ==
    LET body == HybridBody(user_input, limit, env)
    IN  IF body.exc
        THEN vector_search_tool(user_input, limit, env.fallback_embed, env.fallback_aggregate)
        ELSE body

\* web_search_tool(query): the placeholder text around the query.
web_search_tool(query) ==
    <<"W","e","b"," ","s","e","a","r","c","h"," ","r","e","s","u","l","t","s"," ","f","o","r",":"," ">> \o PyStr(query) \o <<"\n","\n","N","o","t","e",":"," ","T","h","i","s"," ","i","s"," ","a"," ","d","e","m","o"," ","e","n","v","i","r","o","n","m","e","n","t","."," ","I","n"," ","a"," ","p","r","o","d","u","c","t","i","o","n"," ","s","y","s","t","e","m",","," ","t","h","i","s"," ","w","o","u","l","d"," ","i","n","t","e","g","r","a","t","e"," ","w","i","t","h"," ","a"," ","r","e","a","l"," ","w","e","b"," ","s","e","a","r","c","h"," ","A","P","I"," ","l","i","k","e"," ","G","o","o","g","l","e"," ","S","e","a","r","c","h"," ","A","P","I"," ","o","r"," ","B","i","n","g"," ","A","P","I"," ","t","o"," ","p","r","o","v","i","d","e"," ","c","u","r","r","e","n","t",","," ","r","e","a","l","-","t","i","m","e"," ","i","n","f","o","r","m","a","t","i","o","n",".","\n","\n","F","o","r"," ","M","o","n","g","o","D","B","-","r","e","l","a","t","e","d"," ","q","u","e","s","t","i","o","n","s",","," ","p","l","e","a","s","e"," ","t","r","y"," ","a","s","k","i","n","g"," ","a","b","o","u","t",":","\n","-"," ","M","o","n","g","o","D","B"," ","A","t","l","a","s"," ","f","e","a","t","u","r","e","s","\n","-"," ","V","e","c","t","o","r"," ","s","e","a","r","c","h"," ","c","a","p","a","b","i","l","i","t","i","e","s"," "," ","\n","-"," ","D","a","t","a","b","a","s","e"," ","p","e","r","f","o","r","m","a","n","c","e","\n","-"," ","R","e","c","e","n","t"," ","a","c","q","u","i","s","i","t","i","o","n","s"," ","o","r"," ","f","i","n","a","n","c","i","a","l"," ","i","n","f","o","r","m","a","t","i","o","n","\n","\n","T","h","e"," ","k","n","o","w","l","e","d","g","e"," ","b","a","s","e"," ","c","o","n","t","a","i","n","s"," ","M","o","n","g","o","D","B"," ","e","a","r","n","i","n","g","s"," ","r","e","p","o","r","t","s"," ","a","n","d"," ","t","e","c","h","n","i","c","a","l"," ","d","o","c","u","m","e","n","t","a","t","i","o","n"," ","t","h","a","t"," ","c","a","n"," ","p","r","o","v","i","d","e"," ","d","e","t","a","i","l","e","d"," ","a","n","s","w","e","r","s"," ","t","o"," ","t","h","e","s","e"," ","t","o","p","i","c","s",".">>

\* ------------------------------------------- planning.py: generate_response

Message(role, content) == [role |-> role, content |-> content]

\* clean_session_history(session_history): role and content of each message.
clean_session_history(session_history) ==
    [i \in DOMAIN session_history |->
        Message(session_history[i].role, session_history[i].content)]

summary_prefix == <<"P","r","e","v","i","o","u","s"," ","c","o","n","v","e","r","s","a","t","i","o","n"," ","s","u","m","m","a","r","y",":"," ">>

\* llm_input of generate_response: the summary as a system message when
\* there is one, the cleaned history, the current user message.
LlmInput(session_summary, session_history, user_input) ==
    (IF session_summary # <<>> /\ session_summary # no_history_text
     THEN <<Message("system", summary_prefix \o session_summary)>> ELSE <<>>)
        \o clean_session_history(session_history)
        \o <<Message("user", user_input)>>

\* The number of messages of the history tool_selector sends along.
selector_window == 5

\* The beginning of the system prompt of tool_selector stands for it.
selector_prompt == <<"Y","o","u"," ","a","r","e"," ","a","n"," ","A","I"," ","a","g","e","n","t">>

\* messages of tool_selector: the system prompt, the last messages of the
\* history when there is one, the current user input.
SelectorMessages(user_input, session_history) ==
    <<Message("system", selector_prompt)>>
        \o clean_session_history(LastN(session_history, selector_window))
        \o <<Message("user", user_input)>>

error_generating_prefix == <<"E","r","r","o","r"," ","g","e","n","e","r","a","t","i","n","g"," ","r","e","s","p","o","n","s","e",":"," ">>

\* str(e) of a failed remote call.
remote_error_text == <<"C","o","n","n","e","c","t","i","o","n"," ","e","r","r","o","r",".">>

\* A variant of get_llm_response without the try/except around the remote call.
get_llm_response_Uncaught(messages, system_message, llm) ==
    IF llm.kind = "error" THEN Raised
    ELSE [exc |-> FALSE, value |-> llm.content, calls |-> 1, sent |-> messages]

\* A variant of get_llm_response that puts the system message first in
\* every case.
get_llm_response_AlwaysFirst(messages, system_message, llm) ==
    [exc   |-> FALSE,
     value |-> IF llm.kind = "error" THEN error_generating_prefix \o remote_error_text
               ELSE llm.content,
     calls |-> 1,
     sent  |-> <<Message("system", system_message)>> \o messages]

\* get_llm_response(messages, system_message) for an outcome of the remote
\* call: the text returned, the number of remote calls, the messages sent.
get_llm_response(messages, system_message, llm) ==
    [exc   |-> FALSE,
     value |-> IF llm.kind = "error" THEN error_generating_prefix \o remote_error_text
               ELSE llm.content,
     calls |-> 1,
     sent  |-> IF \E i \in DOMAIN messages : messages[i].role = "system"
               THEN Append(messages, Message("system", system_message))
               ELSE <<Message("system", system_message)>> \o messages]

\* A text returned without a remote call.
FixedResponse(text) == [exc |-> FALSE, value |-> text, calls |-> 0, sent |-> <<>>]

\* "\n\n".join(f"Document {i+1}:\n{doc['text']}" for i, doc in enumerate(docs))
DocumentsText(docs) ==
    Join(<<"\n", "\n">>, [i \in DOMAIN docs |->
            <<"D","o","c","u","m","e","n","t"," ">> \o IntStr(i) \o <<":", "\n">> \o docs[i].text])

no_relevant_vector_text == <<"I"," ","c","o","u","l","d","n","'","t"," ","f","i","n","d"," ","r","e","l","e","v","a","n","t"," ","i","n","f","o","r","m","a","t","i","o","n"," ","i","n"," ","t","h","e"," ","k","n","o","w","l","e","d","g","e"," ","b","a","s","e"," ","t","o"," ","a","n","s","w","e","r"," ","y","o","u","r"," ","q","u","e","s","t","i","o","n",".">>

vector_system_message(context_text) ==
    <<"\n","A","n","s","w","e","r"," ","t","h","e"," ","u","s","e","r","'","s"," ","q","u","e","s","t","i","o","n"," ","b","a","s","e","d"," ","o","n"," ","t","h","e"," ","r","e","t","r","i","e","v","e","d"," ","c","o","n","t","e","x","t"," ","a","n","d"," ","c","o","n","v","e","r","s","a","t","i","o","n"," ","h","i","s","t","o","r","y",".","\n","\n","I","n","s","t","r","u","c","t","i","o","n","s",":","\n","1","."," ","F","i","r","s","t",","," ","u","n","d","e","r","s","t","a","n","d"," ","w","h","a","t"," ","s","p","e","c","i","f","i","c"," ","i","n","f","o","r","m","a","t","i","o","n"," ","t","h","e"," ","u","s","e","r"," ","i","s"," ","r","e","q","u","e","s","t","i","n","g","\n","2","."," ","T","h","e","n",","," ","l","o","c","a","t","e"," ","t","h","e"," ","m","o","s","t"," ","r","e","l","e","v","a","n","t"," ","d","e","t","a","i","l","s"," ","i","n"," ","t","h","e"," ","c","o","n","t","e","x","t"," ","p","r","o","v","i","d","e","d","\n","3","."," ","F","i","n","a","l","l","y",","," ","p","r","o","v","i","d","e"," ","a"," ","c","l","e","a","r",","," ","a","c","c","u","r","a","t","e"," ","r","e","s","p","o","n","s","e"," ","t","h","a","t"," ","d","i","r","e","c","t","l","y"," ","a","d","d","r","e","s","s","e","s"," ","t","h","e"," ","q","u","e","s","t","i","o","n","\n","\n","I","f"," ","t","h","e"," ","c","u","r","r","e","n","t"," ","q","u","e","s","t","i","o","n"," ","b","u","i","l","d","s"," ","o","n"," ","p","r","e","v","i","o","u","s"," ","e","x","c","h","a","n","g","e","s",","," ","m","a","i","n","t","a","i","n"," ","c","o","n","t","i","n","u","i","t","y"," ","i","n"," ","y","o","u","r"," ","a","n","s","w","e","r",".","\n","U","s","e"," ","t","h","e"," ","p","r","o","v","i","d","e","d"," ","c","o","n","t","e","x","t"," ","t","o"," ","g","i","v","e"," ","h","e","l","p","f","u","l",","," ","i","n","f","o","r","m","a","t","i","v","e"," ","r","e","s","p","o","n","s","e","s","."," ","I","f"," ","t","h","e"," ","c","o","n","t","e","x","t"," ","c","o","n","t","a","i","n","s"," ","r","e","l","e","v","a","n","t"," ","i","n","f","o","r","m","a","t","i","o","n",","," ","s","y","n","t","h","e","s","i","z","e"," ","i","t"," ","t","o"," ","a","n","s","w","e","r"," ","t","h","e"," ","q","u","e","s","t","i","o","n","."," ","O","n","l","y"," ","s","a","y"," ","'","I"," ","D","O","N","'","T"," ","K","N","O","W","'"," ","i","f"," ","t","h","e"," ","c","o","n","t","e","x","t"," ","t","r","u","l","y"," ","c","o","n","t","a","i","n","s"," ","n","o"," ","r","e","l","e","v","a","n","t"," ","i","n","f","o","r","m","a","t","i","o","n"," ","a","t"," ","a","l","l",".","\n","\n","C","o","n","t","e","x","t",":","\n">> \o context_text \o <<"\n">>

\* A variant of process_vector_search_response without the test of an empty
\* context.
process_vector_search_response_NoShortCircuit(messages, context, user_input, llm) ==
    get_llm_response(messages, vector_system_message(DocumentsText(context)), llm)

process_vector_search_response(messages, context, user_input, llm) ==
    IF context = <<>> THEN FixedResponse(no_relevant_vector_text)
    ELSE get_llm_response(messages, vector_system_message(DocumentsText(context)), llm)

web_system_message(search_results) ==
    <<"\n","A","n","s","w","e","r"," ","t","h","e"," ","u","s","e","r","'","s"," ","q","u","e","s","t","i","o","n"," ","b","a","s","e","d"," ","o","n"," ","t","h","e"," ","w","e","b"," ","s","e","a","r","c","h"," ","r","e","s","u","l","t","s"," ","a","n","d"," ","c","o","n","v","e","r","s","a","t","i","o","n"," ","h","i","s","t","o","r","y",".","\n","\n","W","e","b"," ","S","e","a","r","c","h"," ","R","e","s","u","l","t","s",":","\n">> \o search_results \o <<"\n","\n","P","r","o","v","i","d","e"," ","a"," ","h","e","l","p","f","u","l"," ","r","e","s","p","o","n","s","e"," ","b","a","s","e","d"," ","o","n"," ","t","h","e"," ","s","e","a","r","c","h"," ","r","e","s","u","l","t","s","."," ","I","f"," ","t","h","e"," ","s","e","a","r","c","h"," ","r","e","s","u","l","t","s"," ","d","o","n","'","t"," ","c","o","n","t","a","i","n"," ","r","e","l","e","v","a","n","t"," ","i","n","f","o","r","m","a","t","i","o","n",","," ","l","e","t"," ","t","h","e"," ","u","s","e","r"," ","k","n","o","w",".","\n">>

process_web_search_response(messages, search_results, user_input, llm) ==
    get_llm_response(messages, web_system_message(search_results), llm)

no_relevant_hybrid_text == <<"I"," ","c","o","u","l","d","n","'","t"," ","f","i","n","d"," ","r","e","l","e","v","a","n","t"," ","i","n","f","o","r","m","a","t","i","o","n"," ","t","o"," ","a","n","s","w","e","r"," ","y","o","u","r"," ","q","u","e","s","t","i","o","n",".">>

\* doc.get("search_type") == search_type
OfSearchType(context, search_type) ==
    SelectSeq(context, LAMBDA doc :
        "search_type" \in DOMAIN doc /\ doc.search_type = search_type)

\* context_text of process_hybrid_search_response.
HybridContextText(context) ==
    (IF OfSearchType(context, "vector") # <<>>
     THEN <<"S","e","m","a","n","t","i","c"," ","S","e","a","r","c","h"," ","R","e","s","u","l","t","s",":","\n">> \o DocumentsText(OfSearchType(context, "vector"))
     ELSE <<>>)
    \o (IF OfSearchType(context, "text") # <<>>
        THEN <<"\n","\n","K","e","y","w","o","r","d"," ","S","e","a","r","c","h"," ","R","e","s","u","l","t","s",":","\n">> \o DocumentsText(OfSearchType(context, "text"))
        ELSE <<>>)

hybrid_system_message(context_text) ==
    <<"\n","A","n","s","w","e","r"," ","t","h","e"," ","u","s","e","r","'","s"," ","q","u","e","s","t","i","o","n"," ","b","a","s","e","d"," ","o","n"," ","t","h","e"," ","c","o","m","p","r","e","h","e","n","s","i","v","e"," ","s","e","a","r","c","h"," ","r","e","s","u","l","t","s"," ","(","b","o","t","h"," ","s","e","m","a","n","t","i","c"," ","a","n","d"," ","k","e","y","w","o","r","d"," ","s","e","a","r","c","h",")",".","\n","\n","I","n","s","t","r","u","c","t","i","o","n","s",":","\n","1","."," ","S","y","n","t","h","e","s","i","z","e"," ","i","n","f","o","r","m","a","t","i","o","n"," ","f","r","o","m"," ","b","o","t","h"," ","s","e","m","a","n","t","i","c"," ","a","n","d"," ","k","e","y","w","o","r","d"," ","s","e","a","r","c","h"," ","r","e","s","u","l","t","s","\n","2","."," ","P","r","o","v","i","d","e"," ","a"," ","c","o","m","p","r","e","h","e","n","s","i","v","e"," ","a","n","s","w","e","r"," ","t","h","a","t"," ","a","d","d","r","e","s","s","e","s"," ","t","h","e"," ","u","s","e","r","'","s"," ","q","u","e","s","t","i","o","n","\n","3","."," ","I","f"," ","t","h","e","r","e"," ","a","r","e"," ","c","o","n","f","l","i","c","t","i","n","g"," ","i","n","f","o","r","m","a","t","i","o","n",","," ","m","e","n","t","i","o","n"," ","t","h","e"," ","d","i","f","f","e","r","e","n","t"," ","p","e","r","s","p","e","c","t","i","v","e","s","\n","4","."," ","U","s","e"," ","t","h","e"," ","p","r","o","v","i","d","e","d"," ","c","o","n","t","e","x","t"," ","t","o"," ","g","i","v","e"," ","h","e","l","p","f","u","l",","," ","i","n","f","o","r","m","a","t","i","v","e"," ","r","e","s","p","o","n","s","e","s","."," ","S","y","n","t","h","e","s","i","z","e"," ","t","h","e"," ","i","n","f","o","r","m","a","t","i","o","n"," ","t","o"," ","a","n","s","w","e","r"," ","t","h","e"," ","q","u","e","s","t","i","o","n"," ","c","o","m","p","r","e","h","e","n","s","i","v","e","l","y",".","\n","\n","S","e","a","r","c","h"," ","R","e","s","u","l","t","s",":","\n">> \o context_text \o <<"\n">>

process_hybrid_search_response(messages, context, user_input, llm) ==
    IF context = <<>> THEN FixedResponse(no_relevant_hybrid_text)
    ELSE get_llm_response(messages, hybrid_system_message(HybridContextText(context)), llm)

provide_document_text == <<"P","l","e","a","s","e"," ","p","r","o","v","i","d","e"," ","a"," ","d","o","c","u","m","e","n","t"," ","t","o"," ","a","n","a","l","y","z","e","."," ","Y","o","u"," ","c","a","n"," ","p","a","s","t","e"," ","t","h","e"," ","t","e","x","t"," ","c","o","n","t","e","n","t"," ","h","e","r","e",".">>

general_system_message == <<"Y","o","u"," ","a","r","e"," ","a"," ","h","e","l","p","f","u","l"," ","A","I"," ","a","s","s","i","s","t","a","n","t","."," ","R","e","s","p","o","n","d"," ","t","o"," ","t","h","e"," ","u","s","e","r","'","s"," ","p","r","o","m","p","t"," ","b","a","s","e","d"," ","o","n"," ","t","h","e"," ","c","o","n","v","e","r","s","a","t","i","o","n"," ","h","i","s","t","o","r","y",".">>

\* The branch of generate_response a selected tool leads to.
Branch(tool) ==
    IF tool \in {Str(vector_search_tool_name), Str(calculator_tool_name),
                 Str(web_search_tool_name), Str(document_analysis_tool_name),
                 Str(hybrid_search_tool_name)}
    THEN tool.s ELSE none_tool

\* The call of the selected tool (the first statement of a branch) for the
\* outcomes env of the embedding call and of the store queries: what the tool
\* returns.  The branches of the document analysis and of the general
\* conversation call no tool.
CallTool(tool, tool_input, env) ==
    CASE Branch(tool) = vector_search_tool_name ->
            vector_search_tool(tool_input, default_limit, env.embed, env.aggregate)
      [] Branch(tool) = calculator_tool_name -> calculator_tool(tool_input)
      [] Branch(tool) = web_search_tool_name -> Returned(web_search_tool(tool_input))
      [] Branch(tool) = hybrid_search_tool_name ->
            hybrid_search_tool(tool_input, default_limit, env)
      [] OTHER -> Returned(NoneV)

\* A variant of Synthesize in which the calculator's text goes through the
\* remote model, as the web search results do.
Synthesize_CalculatorSynthesized(tool, llm_input, tool_result, user_input, llm) ==
    CASE Branch(tool) = vector_search_tool_name ->
            process_vector_search_response(llm_input, tool_result, user_input, llm)
      [] Branch(tool) \in {calculator_tool_name, web_search_tool_name} ->
            process_web_search_response(llm_input, tool_result, user_input, llm)
      [] Branch(tool) = document_analysis_tool_name -> FixedResponse(provide_document_text)
      [] Branch(tool) = hybrid_search_tool_name ->
            process_hybrid_search_response(llm_input, tool_result, user_input, llm)
      [] OTHER -> get_llm_response(llm_input, general_system_message, llm)

\* The response of a branch (its second statement) from what the tool
\* returned, for an outcome of the remote call.
Synthesize(tool, llm_input, tool_result, user_input, llm) ==
    CASE Branch(tool) = vector_search_tool_name ->
            process_vector_search_response(llm_input, tool_result, user_input, llm)
      [] Branch(tool) = calculator_tool_name -> FixedResponse(tool_result)
      [] Branch(tool) = web_search_tool_name ->
            process_web_search_response(llm_input, tool_result, user_input, llm)
      [] Branch(tool) = document_analysis_tool_name -> FixedResponse(provide_document_text)
      [] Branch(tool) = hybrid_search_tool_name ->
            process_hybrid_search_response(llm_input, tool_result, user_input, llm)
      [] OTHER -> get_llm_response(llm_input, general_system_message, llm)

\* The steps of generate_response in the order of its statements.
Steps ==
    <<"call", "store_user", "read_history", "summary", "preferences", "select",
      "call_tool", "synthesize", "store_assistant", "return">>

\* A variant that reads the history before it stores the user message.
StepAfter_ReadFirst(step) ==
    CASE step = "call"         -> "read_history"
      [] step = "read_history" -> "store_user"
      [] step = "store_user"   -> "summary"
      [] step = "return"       -> "done"
      [] OTHER -> Steps[(CHOOSE i \in DOMAIN Steps : Steps[i] = step) + 1]

\* The step that follows a step ("done" after the last).
StepAfter(step) ==
    IF step = Steps[Len(Steps)] THEN "done"
    ELSE Steps[(CHOOSE i \in DOMAIN Steps : Steps[i] = step) + 1]

\* ------------------------------------------------ planning.py: the analysis

\* s.split(sep) for a one-character separator.
RECURSIVE Split(_, _)
Split(s, sep) ==
    IF \A i \in DOMAIN s : s[i] # sep THEN <<s>>
    ELSE LET first == CHOOSE i \in DOMAIN s : s[i] = sep /\ \A j \in 1..(i - 1) : s[j] # sep
         IN  <<SubSeq(s, 1, first - 1)>> \o Split(SubSeq(s, first + 1, Len(s)), sep)

unable_topics_text == <<"U","n","a","b","l","e"," ","t","o"," ","e","x","t","r","a","c","t"," ","t","o","p","i","c","s">>

\* extract_topics(messages) for an outcome of its remote call: the lines of
\* the answer, or the one-element list of the except.
extract_topics(messages, llm) ==
    IF llm.kind = "error" THEN <<unable_topics_text>>
    ELSE Split(llm.content, "\n")

\* A variant of the classification that looks for how before what.
QuestionType_HowFirst(content) ==
    LET lowered == Lower(content)
    IN  IF Contains(lowered, <<"h","o","w">>) THEN "procedural"
        ELSE IF Contains(lowered, <<"w","h","a","t">>) THEN "factual"
        ELSE IF Contains(lowered, <<"w","h","y">>) THEN "explanatory"
        ELSE "general"

\* The type analyze_question_patterns gives a content with a "?": the first
\* of what, how, why its lower case contains.
QuestionType(content) ==
    LET lowered == Lower(content)
    IN  IF Contains(lowered, <<"w","h","a","t">>) THEN "factual"
        ELSE IF Contains(lowered, <<"h","o","w">>) THEN "procedural"
        ELSE IF Contains(lowered, <<"w","h","y">>) THEN "explanatory"
        ELSE "general"

\* question_types.count(type)
CountOf(question_types, type) ==
    Cardinality({ i \in DOMAIN question_types : question_types[i] = type })

\* analyze_question_patterns(user_messages): the dicts it can return.
\* max(set(question_types), key=question_types.count) gives the first type
\* of maximal count in the iteration order of the set, which the build
\* fixes: any type of maximal count.
analyze_question_patterns(user_messages) ==
    IF user_messages = <<>> THEN { DictV(<<>>) }
    ELSE LET questions == SelectSeq(user_messages,
                              LAMBDA msg : Contains(Lower(msg.content), <<"?">>))
             question_types == [i \in DOMAIN questions |-> QuestionType(questions[i].content)]
             types == { question_types[i] : i \in DOMAIN question_types }
             most_common == IF types = {} THEN {"none"}
                            ELSE { t \in types : \A u \in types :
                                     CountOf(question_types, u) <= CountOf(question_types, t) }
         IN  { [total_questions |-> Len(question_types),
                question_types |-> question_types,
                most_common_type |-> m] : m \in most_common }

\* analyze_conversation_context(session_id) for an outcome of its find and
\* of the remote call of extract_topics: the dicts it can return.  The
\* history holds texts, so nothing in the try raises.
analyze_conversation_context(cursor, llm) ==
    LET session_history == retrieve_session_history(cursor, 0).value
        user_messages == SelectSeq(session_history, LAMBDA msg : msg.role = "user")
        assistant_messages == SelectSeq(session_history, LAMBDA msg : msg.role = "assistant")
    IN  IF session_history = <<>> THEN { [status |-> "no_history"] }
        ELSE { [total_messages |-> Len(session_history),
                user_messages |-> Len(user_messages),
                assistant_messages |-> Len(assistant_messages),
                conversation_topics |-> extract_topics(session_history, llm),
                user_question_patterns |-> patterns] :
               patterns \in analyze_question_patterns(user_messages) }

\* ------------------------------------------------------------- the state

VARIABLES
    sel_input,      \* tool_selector: the utterance it is called with
    sel_outcome,    \* tool_selector: the outcome of its remote call
    sel_result,     \* tool_selector: what it returned
    sel_pc,         \* tool_selector: "ready" before the call, "returned" after
    store,          \* memory_collection: its documents in the order of insertion
    now,            \* the last reading of the clock (datetime.now())
    mem_last,       \* the last direct call of a function of memory.py, with its result
    tool_last,      \* the last direct call of a function of tools.py, with its result
    callers,        \* the processes that call generate_response
    pc,             \* generate_response: the step each process is at
    local           \* generate_response: the local variables of each process

sel_vars == <<sel_input, sel_outcome, sel_result, sel_pc>>
db_vars  == <<store, now>>
turn_vars == <<callers, pc, local>>
direct_vars == <<mem_last, tool_last>>
vars == <<sel_vars, db_vars, direct_vars, turn_vars>>

\* ---------------------------------------------- bounded inputs: selector

\* The number of parts an utterance is put together from.
MaxUtteranceParts == 2
\* The number of parts an unparsable raw response is put together from.
MaxRawParts == 2

\* All texts made of lo..hi parts, in any order and with repetition.
TextsOf(parts, lo, hi) ==
    { Concat([i \in DOMAIN f |-> parts[f[i]]]) :
        f \in UNION { [1..k -> DOMAIN parts] : k \in lo..hi } }

UtteranceParts == <<<<"M","o","n","g","o","D","B">>, <<" ","W","h","a","t"," ","I","s"," ">>, <<"h","i">>>>

\* The two utterances of the specification's examples.
AcquisitionQuestion == <<"W","h","a","t"," ","w","a","s"," ","M","o","n","g","o","D","B","'","s"," ","l","a","t","e","s","t"," ","a","c","q","u","i","s","i","t","i","o","n","?">>
CapitalQuestion     == <<"W","h","a","t"," ","i","s"," ","t","h","e"," ","c","a","p","i","t","a","l"," ","o","f"," ","F","r","a","n","c","e","?">>

Utterances ==
    TextsOf(UtteranceParts, 1, MaxUtteranceParts)
        \cup {AcquisitionQuestion, CapitalQuestion}

RawParts ==
    <<vector_search_tool_name, calculator_tool_name, web_search_tool_name,
      document_analysis_tool_name, hybrid_search_tool_name, <<"u","s","e"," ">>>>

\* Responses json.loads rejects: none of them is a JSON value.
RawTexts == TextsOf(RawParts, 0, MaxRawParts)

text_search_tool == <<"t","e","x","t","_","s","e","a","r","c","h","_","t","o","o","l">>
key_other        == <<"t","o","p","i","c">>

\* The "tool" item of a JSON object response: absent (<<>>) or one item.
ToolItems ==
    {<<>>}
    \cup { << <<key_tool, Str(n)>> >> :
            n \in {vector_search_tool_name, calculator_tool_name, web_search_tool_name,
                   document_analysis_tool_name, hybrid_search_tool_name, none_tool,
                   text_search_tool} }
    \cup { << <<key_tool, NoneV>> >> }

InputValues ==
    { Str(<<"q">>), Str(<<>>), Str(<<" ", "\t", "\n">>), NoneV, Num(0), Num(7),
      ListV(<<>>), ListV(<<Str(<<"q">>)>>), DictV(<<>>),
      DictV(<< <<key_query, Str(<<"q">>)>> >>),
      DictV(<< <<key_query, Str(<<>>)>> >>),
      DictV(<< <<key_query, Num(7)>> >>),
      DictV(<< <<key_query, DictV(<< <<key_other, Str(<<"q">>)>> >>)>> >>),
      DictV(<< <<key_input, Str(<<"i">>)>> >>),
      DictV(<< <<key_input, Str(<<" ">>)>> >>),
      DictV(<< <<key_other, Str(<<"q">>)>> >>) }

InputItems == {<<>>} \cup { << <<key_input, v>> >> : v \in InputValues }

\* Responses that are a JSON object.
ObjectResponses ==
    { [kind |-> "json", val |-> DictV(t \o i)] : t \in ToolItems, i \in InputItems }

\* Responses that are JSON but no object, with their text.
ScalarResponses ==
    { [kind |-> "json", raw |-> <<"\"","c","a","l","c","u","l","a","t","o","r","_","t","o","o","l","\"">>, val |-> Str(calculator_tool_name)],
      [kind |-> "json", raw |-> <<"[","\"","w","e","b","_","s","e","a","r","c","h","_","t","o","o","l","\"","]">>,
                        val |-> ListV(<<Str(web_search_tool_name)>>)],
      [kind |-> "json", raw |-> <<"4","2">>, val |-> Num(42)],
      [kind |-> "json", raw |-> <<"n","u","l","l">>, val |-> NoneV] }

SelectorOutcomes ==
    {[kind |-> "error"], [kind |-> "no_content"]}
    \cup { [kind |-> "text", raw |-> r] : r \in RawTexts }
    \cup ObjectResponses \cup ScalarResponses

\* ------------------------------------------- specification: the selector

NotReturned == [t |-> "not_returned"]

\* No call of memory.py yet.
NoCall == [op |-> "none"]

\* The store and the memory calls where a specification leaves them alone.
InitDb == store = <<>> /\ now = 0 /\ mem_last = NoCall /\ tool_last = NoCall

\* The processes that can call generate_response.
Procs == {"p1", "p2"}

\* A local variable that is not assigned yet, and the value of one that is.
Unset == [t |-> "unset"]
Value(v) == [t |-> "value", v |-> v]

\* The local variables of a call of generate_response before its first
\* statement, with the record of the call: store0 is the collection when the
\* call began, user_pos and assistant_pos the places of the two inserted
\* messages (0 when the insert failed or has not happened), read_len the
\* size of the collection when the history was read (-1 before),
\* generation_calls and sent the remote calls made for the response and the
\* messages sent with them, selector_sent the messages sent by
\* tool_selector, summary_made whether the remote model answered the call
\* of get_session_summary, failed the
\* kinds of operations that failed: "insert_user" and "insert_assistant",
\* "find" (a read of the memory collection), "search" (a query of the
\* knowledge base), "remote" (a call of the remote model).
NoTurn ==
    [session_id |-> "", user_input |-> <<>>, session_history |-> <<>>,
     session_summary |-> <<>>, tool |-> Unset, tool_input |-> Unset,
     tool_result |-> Unset, response |-> Unset, returned |-> Unset,
     store0 |-> <<>>, user_pos |-> 0, assistant_pos |-> 0, read_len |-> -1,
     generation_calls |-> 0, sent |-> <<>>, selector_sent |-> <<>>,
     summary_made |-> FALSE, failed |-> {}]

TurnUnused ==
    /\ callers = {}
    /\ pc = [p \in Procs |-> "idle"]
    /\ local = [p \in Procs |-> NoTurn]

InitSel ==
    /\ sel_input \in Utterances
    /\ sel_outcome \in SelectorOutcomes
    /\ sel_result = NotReturned
    /\ sel_pc = "ready"
    /\ InitDb
    /\ TurnUnused

\* One call of tool_selector.
SelectTool ==
    /\ sel_pc = "ready"
    /\ sel_result' = tool_selector(sel_input, sel_outcome)
    /\ sel_pc' = "returned"
    /\ UNCHANGED <<sel_input, sel_outcome, db_vars, direct_vars, turn_vars>>

NextSel == SelectTool

SpecSel == InitSel /\ [][NextSel]_vars

\* -------------------------------------------- specification: the memory

\* The number of documents the collection holds at most.
MaxDocs == 2
\* The last reading of the clock.
MaxClock == 2

Sessions == {"s1", "s2"}
Roles    == {"user", "assistant"}

hi_text == <<"h","i">>
ok_text == <<"o","k">>

\* The content stored with a role by a direct call.
ContentOf(role) == IF role = "user" THEN hi_text ELSE ok_text

FactLists == { <<<<"f","1">>>>, <<<<"f","1">>, <<"f","2">>>> }
MemoryTypes == { <<"u","s","e","r","_","p","r","o","f","i","l","e">> }

\* The clock readings of n successive calls of datetime.now().
RECURSIVE StampSeqs(_, _)
StampSeqs(from, n) ==
    IF n = 0 THEN {<<>>}
    ELSE UNION { { <<t>> \o rest : rest \in StampSeqs(t, n - 1) } :
                 t \in ClockReadings(from, MaxClock) }

LastOf(stamps, default) == IF stamps = <<>> THEN default ELSE stamps[Len(stamps)]

\* The selector is not called.
SelUnused ==
    /\ sel_input = <<>>
    /\ sel_outcome = [kind |-> "error"]
    /\ sel_result = NotReturned
    /\ sel_pc = "unused"

InitMem == SelUnused /\ InitDb /\ TurnUnused

\* A direct call store_chat_message(s, role, content).
MemStoreChatMessage ==
    \E s \in Sessions, role \in Roles, ok \in BOOLEAN :
    \E t \in ClockReadings(now, MaxClock) :
        /\ Len(store) < MaxDocs
        /\ store' = store_chat_message(store, s, role, ContentOf(role), t, ok).value
        /\ now' = IF ok THEN t ELSE now
        /\ mem_last' = [op |-> "store_chat_message", session_id |-> s, role |-> role,
                        content |-> ContentOf(role), ok |-> ok]
        /\ UNCHANGED <<sel_vars, tool_last, turn_vars>>

\* The record of a call without the collection it was called on.
Brief(call) == [f \in DOMAIN call \ {"before"} |-> call[f]]

\* The calls that read the collection and leave it as it is: a read is
\* followed from the calls that write (a read after a read finds what the
\* read before it found).
Reads == {"retrieve_session_history", "analyze_conversation_context",
          "retrieve_long_term_memory"}

\* A direct call retrieve_session_history(s, limit); `after` is the call
\* it follows.
MemRetrieveSessionHistory ==
    /\ mem_last.op \notin Reads
    /\ \E s \in Sessions, limit \in {0, 1} :
       \E cursor \in FindSession(store, s) :
        /\ mem_last' = [op |-> "retrieve_session_history", session_id |-> s,
                        limit |-> limit, ok |-> ~cursor.exc,
                        result |-> retrieve_session_history(cursor, limit).value,
                        after |-> Brief(mem_last)]
        /\ UNCHANGED <<sel_vars, tool_last, db_vars, turn_vars>>

\* A direct call store_important_facts(s, facts) whose first n inserts succeed.
MemStoreImportantFacts ==
    \E s \in Sessions, facts \in FactLists :
    \E n \in 0..Len(facts) :
    \E stamps \in StampSeqs(now, n) :
        /\ Len(store) + n <= MaxDocs
        /\ store' = store_important_facts(store, s, facts, stamps).value
        /\ now' = LastOf(stamps, now)
        /\ mem_last' = [op |-> "store_important_facts", session_id |-> s,
                        ok |-> n = Len(facts)]
        /\ UNCHANGED <<sel_vars, tool_last, turn_vars>>

\* A direct call store_long_term_memory(s, memory_type, content).
MemStoreLongTermMemory ==
    \E s \in Sessions, memory_type \in MemoryTypes, ok \in BOOLEAN :
    \E t \in ClockReadings(now, MaxClock) :
        /\ Len(store) < MaxDocs
        /\ store' = store_long_term_memory(store, s, memory_type, hi_text, t, ok).value
        /\ now' = IF ok THEN t ELSE now
        /\ mem_last' = [op |-> "store_long_term_memory", session_id |-> s, ok |-> ok]
        /\ UNCHANGED <<sel_vars, tool_last, turn_vars>>

\* A direct call clear_session_memory(s); `before` is the collection it
\* was called on.
MemClearSessionMemory ==
    \E s \in Sessions, ok \in BOOLEAN :
        /\ store # <<>>
        /\ store' = clear_session_memory(store, s, ok).collection
        /\ mem_last' = [op |-> "clear_session_memory", session_id |-> s, ok |-> ok,
                        result |-> clear_session_memory(store, s, ok).value,
                        before |-> store]
        /\ UNCHANGED <<sel_vars, tool_last, now, turn_vars>>

\* The answers of the remote call of extract_topics.
TopicOutcomes == { RemoteError, RemoteText(<<"M","o","n","g","o","D","B","\n","s","e","a","r","c","h">>) }

\* A direct call analyze_conversation_context(s).
MemAnalyzeConversationContext ==
    /\ mem_last.op \notin Reads
    /\ \E s \in Sessions, llm \in TopicOutcomes :
       \E cursor \in FindSession(store, s) :
       \E result \in analyze_conversation_context(cursor, llm) :
        /\ mem_last' = [op |-> "analyze_conversation_context", session_id |-> s,
                        ok |-> ~cursor.exc, result |-> result]
        /\ UNCHANGED <<sel_vars, tool_last, db_vars, turn_vars>>

\* A direct call retrieve_long_term_memory(memory_type).
MemRetrieveLongTermMemory ==
    /\ mem_last.op \notin Reads
    /\ \E memory_type \in MemoryTypes :
       \E cursor \in FindLongTerm(store, memory_type) :
        /\ mem_last' = [op |-> "retrieve_long_term_memory", memory_type |-> memory_type,
                        ok |-> ~cursor.exc,
                        result |-> retrieve_long_term_memory(cursor, long_term_limit).value]
        /\ UNCHANGED <<sel_vars, tool_last, db_vars, turn_vars>>

NextMem ==
    \/ MemStoreChatMessage
    \/ MemRetrieveSessionHistory
    \/ MemStoreImportantFacts
    \/ MemStoreLongTermMemory
    \/ MemClearSessionMemory
    \/ MemAnalyzeConversationContext
    \/ MemRetrieveLongTermMemory

SpecMem == InitMem /\ [][NextMem]_vars

\* ---------------------------------------------- specification: the turn

TurnSessions == {"s1"}
TurnInputs   == {AcquisitionQuestion, CapitalQuestion, hi_text}

q_text        == <<"q">>
sum_expr      == <<"1","5"," ","*"," ","2","3"," ","+"," ","4","5">>
zero_div_expr == <<"1","/","0">>
summary_text  == <<"T","h","e","y"," ","t","a","l","k","e","d",".">>
answer_text   == <<"A","n"," ","a","n","s","w","e","r",".">>

\* A decision of the remote model: {"tool": tool, "input": input}.
Decision(tool, input) ==
    [kind |-> "json", val |-> DictV(<< <<key_tool, tool>>, <<key_input, input>> >>)]

\* The outcomes of the selector's remote call in a turn.
TurnSelectorOutcomes ==
    { [kind |-> "error"],
      [kind |-> "text", raw |-> <<"u","s","e"," ">> \o calculator_tool_name],
      Decision(Str(vector_search_tool_name), Str(q_text)),
      Decision(Str(calculator_tool_name), Str(sum_expr)),
      Decision(Str(calculator_tool_name), Str(zero_div_expr)),
      Decision(Str(web_search_tool_name), Num(7)),
      Decision(Str(document_analysis_tool_name), Str(q_text)),
      Decision(Str(hybrid_search_tool_name), Str(q_text)),
      Decision(Str(none_tool), Str(<<>>)),
      Decision(Str(none_tool), NoneV),
      Decision(Str(text_search_tool), Str(q_text)) }

\* The documents of the knowledge base that a search returns.
Doc(text) == [text |-> text, metadata |-> <<>>]
VectorHits == { <<>>, <<Doc(<<"a">>), Doc(<<"b">>)>> }
TextHits   == { <<>>, <<Doc(<<"a">>), Doc(<<"c">>)>> }

\* The outcomes of the embedding call and of the queries of the knowledge
\* base during one tool call.
SearchEnvs ==
    [embed : {"ok", "error"},
     aggregate : {Raised} \cup { Returned(docs) : docs \in VectorHits },
     text : {Raised} \cup { Returned(docs) : docs \in TextHits },
     fallback_embed : {"ok", "error"},
     fallback_aggregate : {Raised} \cup { Returned(docs) : docs \in VectorHits }]

SummaryOutcomes == {RemoteError, RemoteText(summary_text)}

PreferenceOutcomes ==
    { RemoteError,
      [kind |-> "content", content |-> <<"b","r","i","e","f">>, parsed |-> Raised],
      [kind |-> "content", content |-> <<"{","}">>, parsed |-> Returned(DictV(<<>>))] }

GenerationOutcomes == {RemoteError, RemoteText(answer_text)}

\* The collection after one more direct call store_chat_message(s, role, ...).
Earlier(collection, s, role, t) ==
    store_chat_message(collection, s, role, ContentOf(role), t, TRUE).value

\* The collections a turn starts from: empty, or holding earlier messages of
\* its session (stored within the same millisecond or not) or of another.
PriorStores ==
    { <<>>,
      Earlier(<<>>, "s1", "user", 0),
      Earlier(Earlier(<<>>, "s1", "user", 0), "s1", "assistant", 0),
      Earlier(Earlier(<<>>, "s1", "user", 0), "s1", "assistant", 1),
      Earlier(<<>>, "s2", "user", 0) }

\* Two calls run together are followed with a working store and a remote
\* model that answers; a call run alone meets every outcome.
Together == callers = Procs

\* The second caller speaks in either session, and says something else.
SessionsOf(p) == IF p = "p1" THEN TurnSessions ELSE Sessions
InputsOf(p) ==
    IF ~Together THEN TurnInputs
    ELSE IF p = "p1" THEN {hi_text} ELSE {CapitalQuestion}

InsertOutcomes == IF Together THEN {TRUE} ELSE BOOLEAN

\* The outcomes of find({"session_id": s}).sort("timestamp", 1).
Cursors(s) ==
    IF Together THEN { cursor \in FindSession(store, s) : ~cursor.exc }
    ELSE FindSession(store, s)

SummariesTried   == IF Together THEN {RemoteText(summary_text)} ELSE SummaryOutcomes
PreferencesTried == IF Together THEN {RemoteError} ELSE PreferenceOutcomes
SelectorsTried ==
    IF Together THEN {Decision(Str(none_tool), Str(<<>>))} ELSE TurnSelectorOutcomes
GenerationsTried == IF Together THEN {RemoteText(answer_text)} ELSE GenerationOutcomes

Init ==
    /\ SelUnused
    /\ store \in PriorStores
    /\ now = IF store = <<>> THEN 0 ELSE store[Len(store)].timestamp
    /\ mem_last = NoCall
    /\ tool_last = NoCall
    /\ callers = {"p1"}
    /\ pc = [p \in Procs |-> IF p \in callers THEN Steps[1] ELSE "idle"]
    /\ local = [p \in Procs |-> NoTurn]

\* pc and local after a step of p that sets the fields `changes` of its
\* local variables, or after a statement of p raised.
Proceed(p, changes) ==
    /\ pc' = [pc EXCEPT ![p] = StepAfter(pc[p])]
    /\ local' = [local EXCEPT ![p] =
                    [f \in DOMAIN local[p] |->
                        IF f \in DOMAIN changes THEN changes[f] ELSE local[p][f]]]

Propagate(p, failures) ==
    /\ pc' = [pc EXCEPT ![p] = "raised"]
    /\ local' = [local EXCEPT ![p].failed = @ \cup failures]

\* generate_response(session_id, user_input) is called.
Call(p) ==
    \E s \in SessionsOf(p), u \in InputsOf(p) :
        /\ pc[p] = "call"
        /\ Proceed(p, [session_id |-> s, user_input |-> u, store0 |-> store])
        /\ UNCHANGED <<sel_vars, db_vars, direct_vars, callers>>

\* store_chat_message(session_id, "user", user_input)
StoreUser(p) ==
    \E ok \in InsertOutcomes :
    \E t \in ClockReadings(now, MaxClock) :
        LET stored == store_chat_message(store, local[p].session_id, "user",
                                         local[p].user_input, t, ok)
            failures == IF ok THEN {} ELSE {"insert_user"}
        IN  /\ pc[p] = "store_user"
            /\ IF stored.exc
               THEN Propagate(p, failures) /\ UNCHANGED db_vars
               ELSE /\ store' = stored.value
                    /\ now' = IF ok THEN t ELSE now
                    /\ Proceed(p, [user_pos |-> IF ok THEN Len(store) + 1 ELSE 0,
                                   failed |-> local[p].failed \cup failures])
            /\ UNCHANGED <<sel_vars, direct_vars, callers>>

\* session_history = retrieve_session_history(session_id)
ReadHistory(p) ==
    \E cursor \in Cursors(local[p].session_id) :
        LET history  == retrieve_session_history(cursor, 0)
            failures == IF cursor.exc THEN {"find"} ELSE {}
        IN  /\ pc[p] = "read_history"
            /\ IF history.exc
               THEN Propagate(p, failures)
               ELSE Proceed(p, [session_history |-> history.value,
                                read_len |-> Len(store),
                                failed |-> local[p].failed \cup failures])
            /\ UNCHANGED <<sel_vars, db_vars, direct_vars, callers>>

\* session_summary = get_session_summary(session_id)
Summarize(p) ==
    \E cursor \in Cursors(local[p].session_id), llm \in SummariesTried :
        LET summary  == get_session_summary(cursor, llm)
            failures == (IF cursor.exc THEN {"find"} ELSE {})
                        \cup (IF summary.calls > 0 /\ llm.kind = "error"
                              THEN {"remote"} ELSE {})
        IN  /\ pc[p] = "summary"
            /\ IF summary.exc
               THEN Propagate(p, failures)
               ELSE Proceed(p, [session_summary |-> summary.value,
                                summary_made |-> summary.calls > 0 /\ llm.kind # "error",
                                failed |-> local[p].failed \cup failures])
            /\ UNCHANGED <<sel_vars, db_vars, direct_vars, callers>>

\* user_preferences = get_user_preferences(session_id): the value is not
\* used by any later statement and is not kept.
ReadPreferences(p) ==
    \E cursor \in Cursors(local[p].session_id), llm \in PreferencesTried :
        LET preferences == get_user_preferences(cursor, llm)
            failures == (IF cursor.exc THEN {"find"} ELSE {})
                        \cup (IF preferences.calls > 0 /\ llm.kind = "error"
                              THEN {"remote"} ELSE {})
        IN  /\ pc[p] = "preferences"
            /\ IF preferences.exc
               THEN Propagate(p, failures)
               ELSE Proceed(p, [failed |-> local[p].failed \cup failures])
            /\ UNCHANGED <<sel_vars, db_vars, direct_vars, callers>>

\* tool, tool_input = tool_selector(user_input, session_history)
Select(p) ==
    \E outcome \in SelectorsTried :
        LET selected == tool_selector(local[p].user_input, outcome)
            failures == IF outcome.kind = "error" THEN {"remote"} ELSE {}
        IN  /\ pc[p] = "select"
            /\ IF selected.raised
               THEN Propagate(p, failures)
               ELSE Proceed(p, [tool |-> selected.tool, tool_input |-> selected.input,
                                selector_sent |->
                                    SelectorMessages(local[p].user_input,
                                                     local[p].session_history),
                                failed |-> local[p].failed \cup failures])
            /\ UNCHANGED <<sel_vars, db_vars, direct_vars, callers>>

\* The failures among the outcomes a call of vector_search_tool met.
VectorFailures(user_input, embed, aggregate) ==
    LET result == vector_search_tool(user_input, default_limit, embed, aggregate)
    IN  IF result.exc THEN {}
        ELSE (IF result.embed_calls > 0 /\ embed = "error" THEN {"remote"} ELSE {})
             \cup (IF result.store_queries > 0 /\ aggregate.exc THEN {"search"} ELSE {})

\* The failures among the outcomes env the call of the selected tool met.
ToolFailures(tool, tool_input, env) ==
    CASE Branch(tool) = vector_search_tool_name ->
            VectorFailures(tool_input, env.embed, env.aggregate)
      [] Branch(tool) = hybrid_search_tool_name ->
            VectorFailures(tool_input, env.embed, env.aggregate)
            \cup (IF env.text.exc THEN {"search"} ELSE {})
            \cup (IF HybridBody(tool_input, default_limit, env).exc
                  THEN VectorFailures(tool_input, env.fallback_embed, env.fallback_aggregate)
                  ELSE {})
      [] OTHER -> {}

\* The outcomes that matter to the call of a tool: those of the embedding
\* call and of the vector query for vector_search_tool, all of them for
\* hybrid_search_tool, none for the other tools.
EnvsOf(tool) ==
    LET any == CHOOSE env \in SearchEnvs : TRUE
    IN  CASE Branch(tool) = hybrid_search_tool_name -> SearchEnvs
          [] Branch(tool) = vector_search_tool_name ->
                { env \in SearchEnvs : /\ env.text = any.text
                                       /\ env.fallback_embed = any.fallback_embed
                                       /\ env.fallback_aggregate = any.fallback_aggregate }
          [] OTHER -> {any}

\* The first statement of the selected branch: the call of the tool.
CallSelectedTool(p) ==
    \E env \in EnvsOf(local[p].tool) :
        LET result   == CallTool(local[p].tool, local[p].tool_input, env)
            failures == ToolFailures(local[p].tool, local[p].tool_input, env)
        IN  /\ pc[p] = "call_tool"
            /\ IF result.exc
               THEN Propagate(p, failures)
               ELSE Proceed(p, [tool_result |-> Value(result.value),
                                failed |-> local[p].failed \cup failures])
            /\ UNCHANGED <<sel_vars, db_vars, direct_vars, callers>>

\* The second statement of the selected branch: the response.
SynthesizeResponse(p) ==
    \E llm \in GenerationsTried :
        LET llm_input == LlmInput(local[p].session_summary, local[p].session_history,
                                  local[p].user_input)
            response  == Synthesize(local[p].tool, llm_input, local[p].tool_result.v,
                                    local[p].user_input, llm)
            failures  == IF llm.kind = "error" /\ (response.exc \/ response.calls > 0)
                         THEN {"remote"} ELSE {}
        IN  /\ pc[p] = "synthesize"
            /\ IF response.exc
               THEN Propagate(p, failures)
               ELSE Proceed(p, [response |-> Str(response.value),
                                generation_calls |-> response.calls,
                                sent |-> response.sent,
                                failed |-> local[p].failed \cup failures])
            /\ UNCHANGED <<sel_vars, db_vars, direct_vars, callers>>

\* store_chat_message(session_id, "assistant", response)
StoreAssistant(p) ==
    \E ok \in InsertOutcomes :
    \E t \in ClockReadings(now, MaxClock) :
        LET stored == store_chat_message(store, local[p].session_id, "assistant",
                                         local[p].response.s, t, ok)
            failures == IF ok THEN {} ELSE {"insert_assistant"}
        IN  /\ pc[p] = "store_assistant"
            /\ IF stored.exc
               THEN Propagate(p, failures) /\ UNCHANGED db_vars
               ELSE /\ store' = stored.value
                    /\ now' = IF ok THEN t ELSE now
                    /\ Proceed(p, [assistant_pos |-> IF ok THEN Len(store) + 1 ELSE 0,
                                   failed |-> local[p].failed \cup failures])
            /\ UNCHANGED <<sel_vars, direct_vars, callers>>

\* return response
Return(p) ==
    /\ pc[p] = "return"
    /\ Proceed(p, [returned |-> local[p].response])
    /\ UNCHANGED <<sel_vars, db_vars, direct_vars, callers>>

Next ==
    \/ \E p \in callers : Call(p)
    \/ \E p \in callers : StoreUser(p)
    \/ \E p \in callers : ReadHistory(p)
    \/ \E p \in callers : Summarize(p)
    \/ \E p \in callers : ReadPreferences(p)
    \/ \E p \in callers : Select(p)
    \/ \E p \in callers : CallSelectedTool(p)
    \/ \E p \in callers : SynthesizeResponse(p)
    \/ \E p \in callers : StoreAssistant(p)
    \/ \E p \in callers : Return(p)

Spec == Init /\ [][Next]_vars

\* Two calls of generate_response in flight at once, in one session or in
\* two: their statements interleave in every order.
InitPair ==
    /\ SelUnused
    /\ InitDb
    /\ callers = Procs
    /\ pc = [p \in Procs |-> Steps[1]]
    /\ local = [p \in Procs |-> NoTurn]

SpecPair == InitPair /\ [][Next]_vars

\* --------------------------------------------- specification: the tools

\* The number of documents a query of the knowledge base finds at most.
MaxHits == 2
\* The limits a search is called with, besides the default one.
MaxLimit == 2

Limits == (1..MaxLimit) \cup {default_limit}

blank_text == <<" ", "\t", "\n">>

\* The queries a search is called with: empty, blank, and with a word.
SearchInputs == { Str(<<>>), Str(blank_text), Str(q_text), Str(<<" ">> \o q_text \o <<"\n">>) }

KnownTexts == { <<"a">>, <<"b">>, <<"c">> }

\* The documents a query finds, ranked: texts may repeat among them (two
\* chunks of the corpus with the same text).
HitLists == UNION { [1..n -> { Doc(t) : t \in KnownTexts }] : n \in 0..MaxHits }

QueryOutcomes == {Raised} \cup { Returned(docs) : docs \in HitLists }

\* The outcomes of the calls of one hybrid_search_tool: the second vector
\* search has outcomes of its own, and is made when the text query raises.
ToolEnvs ==
    { env \in [embed : {"ok", "error"}, aggregate : QueryOutcomes, text : QueryOutcomes,
               fallback_embed : {"ok", "error"}, fallback_aggregate : QueryOutcomes] :
        ~env.text.exc => (env.fallback_embed = "error" /\ env.fallback_aggregate = Raised) }

InitTools == SelUnused /\ InitDb /\ TurnUnused

\* A direct call vector_search_tool(user_input, limit).  The tools keep no
\* state: one call is followed from the initial state.
ToolVectorSearch ==
    /\ tool_last = NoCall
    /\ \E user_input \in SearchInputs, limit \in Limits :
       \E embed \in {"ok", "error"}, aggregate \in QueryOutcomes :
        /\ tool_last' = [op |-> "vector_search_tool", user_input |-> user_input,
                         limit |-> limit, embed |-> embed, aggregate |-> aggregate,
                         result |-> vector_search_tool(user_input, limit, embed, aggregate)]
        /\ UNCHANGED <<sel_vars, db_vars, mem_last, turn_vars>>

\* A direct call hybrid_search_tool(user_input, limit).
ToolHybridSearch ==
    /\ tool_last = NoCall
    /\ \E user_input \in SearchInputs, limit \in Limits, env \in ToolEnvs :
        /\ tool_last' = [op |-> "hybrid_search_tool", user_input |-> user_input,
                         limit |-> limit, env |-> env,
                         result |-> hybrid_search_tool(user_input, limit, env)]
        /\ UNCHANGED <<sel_vars, db_vars, mem_last, turn_vars>>

\* The largest of the small operands of an expression.
MaxOperand == 2

Operands  == (0..MaxOperand) \cup {15, 23, 45}
Divisors  == {0, 1, 2, 4}
Operators == {"+", "-", "*", "/"}

\* The expressions a op1 b op2 c, written with or without spaces around the
\* operators; a divisor is 0, 1, 2 or 4.
FlatShapes ==
    { e \in [a : Operands, op1 : Operators, b : Operands \cup Divisors,
             op2 : Operators, c : Operands \cup Divisors, space : {<<>>, <<" ">>}] :
        /\ e.op1 = "/" => e.b \in Divisors
        /\ e.op2 = "/" => e.c \in Divisors }

FlatExprs ==
    { [a |-> e.a, op1 |-> e.op1, b |-> e.b, op2 |-> e.op2, c |-> e.c,
       text |-> IntStr(e.a) \o e.space \o <<e.op1>> \o e.space \o IntStr(e.b)
                    \o e.space \o <<e.op2>> \o e.space \o IntStr(e.c)] : e \in FlatShapes }

\* s with the character c put in before position i.
Inserted(s, i, c) == SubSeq(s, 1, i - 1) \o <<c>> \o SubSeq(s, i, Len(s))

\* The expression of the specification with one more character in it.
InsertedChars == {" ", "\t", "\n", "a", "_", ",", "%", "E"}
InsertedExprs ==
    { Inserted(sum_expr, i, c) : i \in 1..(Len(sum_expr) + 1), c \in InsertedChars }

\* Expressions with their values, and texts that are no expression.
ExampleValues ==
    { <<sum_expr, <<"3","9","0">>>>, <<<<"2"," ","*"," ","(","3"," ","+"," ","4",")">>, <<"1","4">>>>, <<<<"(","1"," ","+"," ","2",")"," ","*"," ","3">>, <<"9">>>>,
      <<<<"7","/","2">>, <<"3",".","5">>>>, <<<<"4","/","2">>, <<"2",".","0">>>>, <<<<"-","(","2","+","3",")","*","4">>, <<"-","2","0">>>>,
      <<<<" ","1">>, <<"1">>>>, <<<<"(",")">>, <<"(",")">>>> }
ErrorExamples ==
    { zero_div_expr, <<"1"," ","+">>, <<"(","1">>, <<"1","(","2",")">>, <<>>, <<" ">>, <<"1","/","(","2","-","2",")">> }
RejectedExamples ==
    { <<"i","m","p","o","r","t"," ","o","s">>, <<"_","_">>, <<"e","v","a","l","(","1",")">>, <<"E","X","E","C">>, <<"1"," ","+"," ","_","_","i","m","p","o","r","t","_","_">>, q_text, blank_text }

NoParts == [text |-> <<>>]

\* A direct call calculator_tool(user_input); parts tells how user_input was
\* put together.
ToolCalculator ==
    /\ tool_last = NoCall
    /\ \E parts \in FlatExprs \cup
                    { [text |-> t] : t \in InsertedExprs \cup ErrorExamples \cup RejectedExamples
                                              \cup { e[1] : e \in ExampleValues } } :
        /\ tool_last' = [op |-> "calculator_tool", user_input |-> Str(parts.text),
                         parts |-> parts, result |-> calculator_tool(Str(parts.text))]
        /\ UNCHANGED <<sel_vars, db_vars, mem_last, turn_vars>>

NextTools ==
    \/ ToolVectorSearch
    \/ ToolHybridSearch
    \/ ToolCalculator

SpecTools == InitTools /\ [][NextTools]_vars

\* ------------------------------------------ specification: the analysis

\* The number of user messages analyze_question_patterns is called with at
\* most.
MaxMessages == 3

\* What the user messages say: questions of each type, in upper and lower
\* case, with two of the words, with none, and texts without a "?".
MessageTexts ==
    { <<"W","h","a","t","?">>, <<"h","o","w","?">>, <<"W","H","Y","?">>, <<"h","o","w"," ","w","h","a","t","?">>, <<"W","h","y"," ","h","o","w","?">>, <<"o","k","?">>,
      <<"w","h","a","t">>, hi_text }

UserMessageLists ==
    UNION { [1..n -> { Message("user", text) : text \in MessageTexts }] : n \in 0..MaxMessages }

\* A direct call analyze_question_patterns(user_messages): the function
\* keeps no state, and one call is followed from the initial state.
AnalyzeQuestionPatterns ==
    /\ tool_last = NoCall
    /\ \E user_messages \in UserMessageLists :
       \E result \in analyze_question_patterns(user_messages) :
        /\ tool_last' = [op |-> "analyze_question_patterns",
                         user_messages |-> user_messages, result |-> result]
        /\ UNCHANGED <<sel_vars, db_vars, mem_last, turn_vars>>

NextAnalysis == AnalyzeQuestionPatterns

SpecAnalysis == InitTools /\ [][NextAnalysis]_vars

\* ---------------------------------------------------- claims: the selector

Capabilities ==
    { Str(n) : n \in {vector_search_tool_name, calculator_tool_name, web_search_tool_name,
                      document_analysis_tool_name, hybrid_search_tool_name, none_tool} }

HasDomainKeyword(text)  == AnyKeywordIn(mongodb_keywords, Lower(text))
HasGeneralKeyword(text) == AnyKeywordIn(general_knowledge_keywords, Lower(text))

\* The tool the remote decision step answered with: the "tool" of a JSON
\* object ("none" when it has none), the tool the fallback parsing reads
\* from a text that is no JSON, and no tool at all otherwise.
RemoteChoice(outcome) ==
    CASE outcome.kind = "json" /\ IsDict(outcome.val) ->
            DictGet(outcome.val, key_tool, Str(none_tool))
      [] outcome.kind = "text" -> Str(ParseFallback(outcome.raw))
      [] OTHER -> [t |-> "no_choice"]

\* A text answer that is not a structured result: no JSON, or no JSON object.
Malformed(outcome) ==
    \/ outcome.kind = "text"
    \/ outcome.kind = "json" /\ ~IsDict(outcome.val)

\* C1: whenever the tool tool_selector returns is not "none", the input it
\* returns is a non-blank text, whatever the remote call answered.
C1_InputNeverEmpty ==
    (sel_pc = "returned" /\ sel_result.tool # Str(none_tool))
        => /\ IsStr(sel_result.input)
           /\ Strip(sel_result.input.s) # <<>>

\* C2: the tool tool_selector returns is one of the six capability values.
C2_ToolIsCapability ==
    sel_pc = "returned" => sel_result.tool \in Capabilities

\* C3: an utterance with a domain keyword (in any case) and a remote choice
\* of web_search_tool give vector_search_tool.
C3_DomainOverridesWebSearch ==
    (/\ sel_pc = "returned"
     /\ HasDomainKeyword(sel_input)
     /\ RemoteChoice(sel_outcome) = Str(web_search_tool_name))
        => sel_result.tool = Str(vector_search_tool_name)

C3_Witness ==
    /\ sel_pc = "returned"
    /\ sel_input = AcquisitionQuestion
    /\ sel_outcome.kind = "json"
    /\ RemoteChoice(sel_outcome) = Str(web_search_tool_name)
    /\ sel_result.parsed = Str(web_search_tool_name)
    /\ sel_result.tool = Str(vector_search_tool_name)

C5_RemoteFailureFallback ==
    (sel_pc = "returned" /\ sel_outcome.kind = "error")
        => /\ ~sel_result.raised
           /\ sel_result.calls = 1
           /\ sel_result.input = Str(sel_input)
           /\ sel_result.tool =
                IF HasDomainKeyword(sel_input) THEN Str(vector_search_tool_name)
                ELSE IF HasGeneralKeyword(sel_input) THEN Str(web_search_tool_name)
                ELSE Str(none_tool)

\* A remote failure on an utterance with keywords of both sets.
C5_Witness ==
    /\ sel_pc = "returned"
    /\ sel_outcome.kind = "error"
    /\ HasDomainKeyword(sel_input) /\ HasGeneralKeyword(sel_input)
    /\ sel_result.tool = Str(vector_search_tool_name)
    /\ sel_result.input = Str(sel_input)

\* C6: for an answer that is not a well-formed structured result, the tool
\* is the first tool name, in the fixed order, that occurs in the raw
\* answer ("none" if none occurs), taken through the two override rules;
\* the input is the original utterance and nothing is raised.
C6_FallbackOnMalformed ==
    (sel_pc = "returned" /\ Malformed(sel_outcome))
        => /\ ~sel_result.raised
           /\ sel_result.input = Str(sel_input)
           /\ sel_result.tool =
                ApplyOverrides(Str(ParseFallback(sel_outcome.raw)), sel_input)

\* ------------------------------------------------------ claims: the memory

\* C10: a retrieve_session_history(s) that follows a successful
\* store_chat_message(s, role, content), after any earlier calls, returns a
\* sequence that holds the turn with its role and content and is ordered by
\* non-decreasing timestamp (the store answering the query).
C10_StoredTurnRetrieved ==
    (/\ mem_last.op = "retrieve_session_history"
     /\ mem_last.ok
     /\ mem_last.limit = 0
     /\ mem_last.after.op = "store_chat_message"
     /\ mem_last.after.ok
     /\ mem_last.after.session_id = mem_last.session_id)
        => /\ \E i \in DOMAIN mem_last.result :
                /\ mem_last.result[i].role = mem_last.after.role
                /\ mem_last.result[i].content = mem_last.after.content
           /\ \A i, j \in DOMAIN mem_last.result :
                i < j => mem_last.result[i].timestamp <= mem_last.result[j].timestamp

\* C11: after any calls, a clear_session_memory(s) whose delete the store
\* executes leaves the documents of every other session as they were, in
\* their order, and the retrieve_session_history(s) that follows it at once
\* returns the empty sequence.
C11_ClearThenRetrieve ==
    /\ (mem_last.op = "clear_session_memory" /\ mem_last.ok)
            => \A s \in Sessions \ {mem_last.session_id} :
                    /\ Matching(store, s) = Matching(mem_last.before, s)
                    /\ FindSession(store, s) = FindSession(mem_last.before, s)
    /\ (/\ mem_last.op = "retrieve_session_history"
        /\ mem_last.after.op = "clear_session_memory"
        /\ mem_last.after.ok
        /\ mem_last.after.session_id = mem_last.session_id)
            => mem_last.result = <<>>

\* A retrieve after the clear of a session that held a document, while
\* another session holds one.
C11_Witness ==
    /\ mem_last.op = "retrieve_session_history"
    /\ mem_last.ok
    /\ mem_last.after.op = "clear_session_memory"
    /\ mem_last.after.ok
    /\ mem_last.after.result
    /\ mem_last.after.session_id = mem_last.session_id
    /\ Len(store) >= 1
    /\ mem_last.result = <<>>

\* The chat turns a collection holds for a session.
TurnsOf(collection, session_id) ==
    SelectSeq(collection, LAMBDA doc : doc.session_id = session_id /\ "role" \in DOMAIN doc)

\* The number of chat turns with a role.
TurnsWithRole(collection, session_id, role) ==
    Len(SelectSeq(TurnsOf(collection, session_id), LAMBDA doc : doc.role = role))

\* C12: analyze_conversation_context(s), with a store that executes its
\* find, returns {status: no_history} when the session has no turn, and
\* otherwise the number of turns of s as total_messages, the number of user
\* turns as user_messages and the number of assistant turns as
\* assistant_messages.
C12_AnalysisCounts ==
    (mem_last.op = "analyze_conversation_context" /\ mem_last.ok) =>
        LET s == mem_last.session_id
        IN  IF TurnsOf(store, s) = <<>>
            THEN mem_last.result = [status |-> "no_history"]
            ELSE /\ "total_messages" \in DOMAIN mem_last.result
                 /\ mem_last.result.total_messages = Len(TurnsOf(store, s))
                 /\ mem_last.result.user_messages = TurnsWithRole(store, s, "user")
                 /\ mem_last.result.assistant_messages = TurnsWithRole(store, s, "assistant")

\* The same on a session that holds chat turns only.
AnalysisCountsOfTurns ==
    (/\ mem_last.op = "analyze_conversation_context"
     /\ mem_last.ok
     /\ Matching(store, mem_last.session_id) = TurnsOf(store, mem_last.session_id))
        => C12_AnalysisCounts

\* ------------------------------------------------------- claims: the tools

\* No two entries of a result have the same text.
DistinctTexts(results) ==
    \A i, j \in DOMAIN results : results[i].text = results[j].text => i = j

\* The try block of the hybrid_search_tool of the last call ended normally.
Merged ==
    /\ tool_last.op = "hybrid_search_tool"
    /\ ~HybridBody(tool_last.user_input, tool_last.limit, tool_last.env).exc

\* What the first vector search and the text query of the last call gave.
VectorResults ==
    vector_search_tool(tool_last.user_input, tool_last.limit,
                       tool_last.env.embed, tool_last.env.aggregate).value
TextResults == FirstN(tool_last.env.text.value, tool_last.limit)

\* C13: the sequence hybrid_search_tool(query, limit) returns has at most
\* limit entries and no two entries with the same text; a text that a vector
\* result and a text result share is returned once, tagged vector; the
\* entries tagged vector precede the entries tagged text.
C13_HybridMerge ==
    tool_last.op = "hybrid_search_tool" =>
        LET results == tool_last.result.value
        IN  /\ Len(results) <= tool_last.limit
            /\ DistinctTexts(results)
            /\ Merged =>
                /\ \A t \in TextsIn(VectorResults) \cap TextsIn(TextResults) :
                      \E i \in DOMAIN results :
                          results[i].text = t /\ results[i].search_type = "vector"
                /\ \A i, j \in DOMAIN results :
                      (results[i].search_type = "vector" /\ results[j].search_type = "text")
                          => i < j

\* The same for the calls whose try block ends normally.
HybridMergeOfTry ==
    Merged => C13_HybridMerge

\* What the second vector search of the last call gave.
FallbackResults ==
    vector_search_tool(tool_last.user_input, tool_last.limit,
                       tool_last.env.fallback_embed, tool_last.env.fallback_aggregate).value

\* C14: hybrid_search_tool, called with a text, never raises; when its try
\* block fails it returns what the vector_search_tool of the except returns
\* for the same query and limit; and it returns the empty sequence only when
\* the vector search whose results it uses returned the empty sequence.
C14_HybridNeverRaises ==
    tool_last.op = "hybrid_search_tool" =>
        /\ ~tool_last.result.exc
        /\ ~Merged => tool_last.result.value = FallbackResults
        /\ tool_last.result.value = <<>> =>
              IF Merged THEN VectorResults = <<>> ELSE FallbackResults = <<>>

\* The text query raised after a vector search that found two documents, and
\* the second vector search found documents too.
C14_Witness ==
    /\ tool_last.op = "hybrid_search_tool"
    /\ tool_last.env.text.exc
    /\ Len(VectorResults) = 2
    /\ ~tool_last.result.exc
    /\ tool_last.result.value = FallbackResults
    /\ FallbackResults # <<>>

\* The query of the last call is empty or made of whitespace.
BlankQuery == Strip(tool_last.user_input.s) = <<>>

\* C15: vector_search_tool returns the empty sequence for a blank query
\* without an embedding call and without a query of the store; when the
\* embedding call fails it returns the empty sequence without a query of the
\* store; it does not raise.
C15_VectorSearchShortCircuit ==
    tool_last.op = "vector_search_tool" =>
        /\ ~tool_last.result.exc
        /\ BlankQuery =>
              /\ tool_last.result.value = <<>>
              /\ tool_last.result.embed_calls = 0
              /\ tool_last.result.store_queries = 0
        /\ (~BlankQuery /\ tool_last.embed = "error") =>
              /\ tool_last.result.value = <<>>
              /\ tool_last.result.embed_calls = 1
              /\ tool_last.result.store_queries = 0

\* The embedding call of a query with a word failed, with an index that
\* would have found documents.
C15_Witness ==
    /\ tool_last.op = "vector_search_tool"
    /\ ~BlankQuery
    /\ tool_last.embed = "error"
    /\ ~tool_last.aggregate.exc
    /\ tool_last.aggregate.value # <<>>
    /\ tool_last.result.value = <<>>
    /\ tool_last.result.store_queries = 0

\* The characters of an expression according to the specification: digits,
\* + - * / . ( ) and the whitespace characters space, tab and newline.
ExpressionChars ==
    {"0","1","2","3","4","5","6","7","8","9","+","-","*","/",".","(",")"," ","\t","\n"}

\* The text calculator_tool was called with.
CalculatorInput == tool_last.user_input.s

\* A text with which calculator_tool rejects its input.
RejectionTexts == {invalid_characters_text, unsafe_expression_text}

\* calculator_tool rejects, without a call of eval and without raising, an
\* input with a character outside ExpressionChars or with one of the
\* substrings import, exec, eval, __.
CalculatorRejectsUnsafe ==
    (/\ tool_last.op = "calculator_tool"
     /\ \/ \E i \in DOMAIN CalculatorInput : CalculatorInput[i] \notin ExpressionChars
        \/ AnyKeywordIn(unsafe_functions, CalculatorInput))
        => /\ ~tool_last.result.exc
           /\ tool_last.result.value \in RejectionTexts
           /\ tool_last.result.evals = 0

\* C16: calculator_tool rejects such an input (CalculatorRejectsUnsafe), and
\* the character check does not reject an input made of digits, the operator
\* characters and the whitespace characters space, tab and newline.
C16_CalculatorRejects ==
    /\ CalculatorRejectsUnsafe
    /\ (/\ tool_last.op = "calculator_tool"
        /\ \A i \in DOMAIN CalculatorInput : CalculatorInput[i] \in ExpressionChars)
            => tool_last.result.value # invalid_characters_text

\* a op b on integers, op one of + - *.
Applied(op, a, b) ==
    CASE op = "+" -> a + b
      [] op = "-" -> a - b
      [] op = "*" -> a * b

\* The value of a op1 b op2 c by the rules of arithmetic (op1, op2 among
\* + - *): a multiplication is done before an addition or a subtraction,
\* and operators of the same rank from left to right.
ArithmeticValue(e) ==
    IF e.op2 = "*" /\ e.op1 # "*"
    THEN Applied(e.op1, e.a, Applied(e.op2, e.b, e.c))
    ELSE Applied(e.op2, Applied(e.op1, e.a, e.b), e.c)

IsErrorText(text) ==
    Len(text) >= Len(error_prefix) /\ SubSeq(text, 1, Len(error_prefix)) = error_prefix

\* The last call evaluated a op1 b op2 c.
FlatCall == tool_last.op = "calculator_tool" /\ "op1" \in DOMAIN tool_last.parts

\* C17: calculator_tool returns the text of the value of an accepted
\* expression by the rules of arithmetic ("15 * 23 + 45" gives "390"), and
\* returns an error text, without raising, when the evaluation fails: on a
\* division by zero ("1/0") and on a syntax error.
C17_CalculatorEvaluates ==
    tool_last.op = "calculator_tool" =>
        /\ ~tool_last.result.exc
        /\ \A e \in ExampleValues :
              CalculatorInput = e[1] => tool_last.result.value = e[2]
        /\ CalculatorInput \in ErrorExamples => IsErrorText(tool_last.result.value)
        /\ CalculatorInput = zero_div_expr =>
              tool_last.result.value = error_prefix \o ErrorStr("zero_division")
        /\ FlatCall =>
              LET e == tool_last.parts
                  by_zero == (e.op1 = "/" /\ e.b = 0) \/ (e.op2 = "/" /\ e.c = 0)
              IN  /\ by_zero <=> IsErrorText(tool_last.result.value)
                  /\ by_zero => tool_last.result.value = error_prefix \o ErrorStr("zero_division")
                  /\ {e.op1, e.op2} \subseteq {"+", "-", "*"} =>
                        tool_last.result.value = IntStr(ArithmeticValue(e))

\* An expression in which the multiplication comes last and is done first,
\* with a negative value.
C17_Witness ==
    /\ FlatCall
    /\ tool_last.parts.op1 = "-"
    /\ tool_last.parts.op2 = "*"
    /\ tool_last.parts.a < tool_last.parts.b * tool_last.parts.c
    /\ tool_last.result.value = IntStr(ArithmeticValue(tool_last.parts))
    /\ tool_last.result.evals = 1

\* -------------------------------------------------------- claims: the turn

\* The turn of p is past the statement `step`.
Past(p, step) ==
    \/ pc[p] = "done"
    \/ \E i, j \in DOMAIN Steps : Steps[i] = step /\ Steps[j] = pc[p] /\ i < j

\* The chat message doc is the one of role `role` and content `content` in
\* the session of p's turn.
IsTurnOf(p, doc, role, content) ==
    /\ {"role", "content"} \subseteq DOMAIN doc
    /\ doc.session_id = local[p].session_id
    /\ doc.role = role
    /\ doc.content = content

\* C7: generate_response never raises, whichever inserts and reads of the
\* store and whichever calls of the remote model (generation, embedding) fail:
\* no statement of a turn ends by an exception, whatever failed before it,
\* and what the turn returns is a text.
C7_TurnNeverRaises ==
    \A p \in callers :
        /\ pc[p] # "raised"
        /\ pc[p] = "done" => IsStr(local[p].returned)

\* A turn in which the two inserts, a read of the store, a query of the
\* knowledge base and a remote call failed, and that returned a text.
C7_Witness ==
    /\ pc["p1"] = "done"
    /\ local["p1"].failed = {"insert_user", "insert_assistant", "find", "search", "remote"}
    /\ IsStr(local["p1"].returned)

\* C8: in a turn the user message is inserted before the history is read
\* (the read sees it), the tool is selected before it is called and before
\* the response is made, the assistant message is inserted after the response
\* is made and before the return, and its content is the text returned; with
\* a working store, a turn that runs alone leaves the collection as it
\* found it plus the user message followed by the assistant message.
C8_TurnOrder ==
    \A p \in callers :
        LET l == local[p]
        IN  /\ (l.read_len >= 0 /\ "insert_user" \notin l.failed)
                => /\ l.user_pos \in 1..l.read_len
                   /\ IsTurnOf(p, store[l.user_pos], "user", l.user_input)
                   /\ "find" \notin l.failed
                        => \E i \in DOMAIN l.session_history :
                              /\ l.session_history[i].role = "user"
                              /\ l.session_history[i].content = l.user_input
                              /\ l.session_history[i].timestamp = store[l.user_pos].timestamp
            /\ l.tool_result # Unset => l.tool # Unset
            /\ l.response # Unset => l.tool_result # Unset
            /\ l.assistant_pos # 0
                => /\ l.response # Unset
                   /\ l.assistant_pos > l.user_pos
                   /\ IsTurnOf(p, store[l.assistant_pos], "assistant", l.response.s)
            /\ (l.returned # Unset /\ "insert_assistant" \notin l.failed)
                => /\ l.assistant_pos # 0
                   /\ store[l.assistant_pos].content = l.returned.s
            /\ (pc[p] = "done" /\ callers = {p}
                /\ l.failed \cap {"insert_user", "insert_assistant", "find"} = {})
                => /\ Len(store) = Len(l.store0) + 2
                   /\ SubSeq(store, 1, Len(l.store0)) = l.store0
                   /\ IsTurnOf(p, store[Len(store) - 1], "user", l.user_input)
                   /\ IsTurnOf(p, store[Len(store)], "assistant", l.returned.s)

\* A turn that ran alone with a working store on a session with an earlier
\* exchange: the history it read holds the exchange and its user message.
C8_Witness ==
    /\ pc["p1"] = "done"
    /\ callers = {"p1"}
    /\ local["p1"].failed = {}
    /\ Len(local["p1"].store0) = 2
    /\ Len(local["p1"].session_history) = 3
    /\ store = local["p1"].store0
                \o <<store[Len(store) - 1], store[Len(store)]>>
    /\ store[Len(store)].content = local["p1"].returned.s

\* C9: when the insert of the assistant message fails, the turn still
\* returns its response, the assistant message is not in the collection, and
\* the user message the turn inserted is still there: alone, the turn leaves
\* the collection as it found it plus its user message.
C9_AssistantInsertFails ==
    \A p \in callers :
        LET l == local[p]
        IN  "insert_assistant" \in l.failed
                => /\ pc[p] \in {"return", "done"}
                   /\ l.assistant_pos = 0
                   /\ pc[p] = "done" => IsStr(l.returned) /\ l.returned = l.response
                   /\ l.user_pos # 0
                        => IsTurnOf(p, store[l.user_pos], "user", l.user_input)
                   /\ callers = {p}
                        => store = l.store0
                            \o (IF l.user_pos # 0 THEN <<store[l.user_pos]>> ELSE <<>>)

\* A turn that returned its response although the insert of the assistant
\* message failed, with its user message stored.
C9_Witness ==
    /\ pc["p1"] = "done"
    /\ "insert_assistant" \in local["p1"].failed
    /\ local["p1"].user_pos # 0
    /\ IsTurnOf("p1", store[Len(store)], "user", local["p1"].user_input)
    /\ local["p1"].returned = Str(answer_text)

\* The branch the turn of p took.
BranchOf(p) == Branch(local[p].tool)

\* C18: on the vector-search path and on the hybrid path, when the tool
\* returned no document the response is the fixed message of the path and no
\* remote call is made for it.
C18_NoDocumentsShortCircuit ==
    \A p \in callers :
        (/\ Past(p, "synthesize")
         /\ BranchOf(p) \in {vector_search_tool_name, hybrid_search_tool_name}
         /\ local[p].tool_result.v = <<>>)
            => /\ local[p].generation_calls = 0
               /\ local[p].sent = <<>>
               /\ local[p].response =
                    Str(IF BranchOf(p) = vector_search_tool_name
                        THEN no_relevant_vector_text ELSE no_relevant_hybrid_text)

\* A turn on the hybrid path whose searches found nothing and that returned
\* the fixed message.
C18_Witness ==
    /\ pc["p1"] = "done"
    /\ BranchOf("p1") = hybrid_search_tool_name
    /\ local["p1"].tool_result.v = <<>>
    /\ local["p1"].returned = Str(no_relevant_hybrid_text)
    /\ local["p1"].generation_calls = 0

\* C19: when the calculator is selected, the response of the turn, the
\* content of the assistant message it inserts and the text it returns are
\* the text calculator_tool returned, error texts included, and no remote call
\* is made after the selection.
C19_CalculatorTextIsAnswer ==
    \A p \in callers :
        BranchOf(p) = calculator_tool_name =>
            /\ local[p].tool_result # Unset
                => local[p].tool_result.v = calculator_tool(local[p].tool_input).value
            /\ Past(p, "synthesize")
                => /\ local[p].response = Str(local[p].tool_result.v)
                   /\ local[p].generation_calls = 0
                   /\ local[p].sent = <<>>
            /\ local[p].assistant_pos # 0
                => store[local[p].assistant_pos].content = local[p].tool_result.v
            /\ pc[p] = "done" => local[p].returned = Str(local[p].tool_result.v)

\* A turn that returned and stored the calculator's error text of a division
\* by zero.
C19_Witness ==
    /\ pc["p1"] = "done"
    /\ BranchOf("p1") = calculator_tool_name
    /\ local["p1"].tool_input = Str(zero_div_expr)
    /\ local["p1"].returned = Str(error_prefix \o ErrorStr("zero_division"))
    /\ local["p1"].assistant_pos # 0
    /\ store[local["p1"].assistant_pos].content = local["p1"].returned.s

\* The system instruction the branch of p's turn makes.
SystemInstruction(p) ==
    Message("system",
        CASE BranchOf(p) = vector_search_tool_name ->
                vector_system_message(DocumentsText(local[p].tool_result.v))
          [] BranchOf(p) = web_search_tool_name ->
                web_system_message(local[p].tool_result.v)
          [] BranchOf(p) = hybrid_search_tool_name ->
                hybrid_system_message(HybridContextText(local[p].tool_result.v))
          [] OTHER -> general_system_message)

\* The conversation of p's turn before the instruction is added.
ConversationOf(p) ==
    LlmInput(local[p].session_summary, local[p].session_history, local[p].user_input)

HasSystemMessage(messages) == \E i \in DOMAIN messages : messages[i].role = "system"

\* C20: in a turn that calls the remote model for its response, the system
\* instruction is the first message sent exactly when the conversation held
\* no system message; otherwise it is the last message, right after the
\* current user message, and the messages of the conversation, its system
\* messages among them, are sent unchanged at their places.
C20_InstructionPlacement ==
    \A p \in callers :
        (Past(p, "synthesize") /\ local[p].generation_calls > 0) =>
            LET sent == local[p].sent
                conversation == ConversationOf(p)
                n == Len(conversation)
            IN  /\ Len(sent) = n + 1
                /\ sent[1] = SystemInstruction(p) <=> ~HasSystemMessage(conversation)
                /\ ~HasSystemMessage(conversation)
                    => \A i \in 1..n : sent[i + 1] = conversation[i]
                /\ HasSystemMessage(conversation)
                    => /\ sent[n + 1] = SystemInstruction(p)
                       /\ sent[n] = Message("user", local[p].user_input)
                       /\ \A i \in 1..n : sent[i] = conversation[i]

\* A turn with a summary that sent the summary first and the instruction
\* last.
C20_Witness ==
    /\ pc["p1"] = "done"
    /\ local["p1"].generation_calls = 1
    /\ HasSystemMessage(ConversationOf("p1"))
    /\ Len(local["p1"].session_history) >= 2
    /\ local["p1"].sent[1].content = summary_prefix \o local["p1"].session_summary
    /\ local["p1"].sent[Len(local["p1"].sent)] = SystemInstruction("p1")

\* ---------------------------------------------- claims: two calls at once

\* The two calls are made in the same session.
SameSession == local["p1"].session_id = local["p2"].session_id

\* The roles of the chat turns a collection holds for a session, in the
\* order of insertion.
RolesOf(collection, session_id) ==
    [i \in DOMAIN TurnsOf(collection, session_id) |-> TurnsOf(collection, session_id)[i].role]

\* The history holds a message with this role and content.
Holds(session_history, role, content) ==
    \E i \in DOMAIN session_history :
        session_history[i].role = role /\ session_history[i].content = content

\* C21: two calls of generate_response in one session that run at once with
\* a working store persist exactly four turns, the user message and the
\* assistant message of each call, every one at a place of its own: no insert
\* is lost or torn, in whichever order the statements interleave.
C21_FourTurnsPersisted ==
    (Together /\ SameSession /\ \A p \in callers : pc[p] = "done") =>
        LET s == local["p1"].session_id
        IN  /\ Len(store) = 4
            /\ Len(TurnsOf(store, s)) = 4
            /\ TurnsWithRole(store, s, "user") = 2
            /\ TurnsWithRole(store, s, "assistant") = 2
            /\ \A p \in callers :
                  /\ local[p].user_pos \in DOMAIN store
                  /\ local[p].assistant_pos \in DOMAIN store
                  /\ IsTurnOf(p, store[local[p].user_pos], "user", local[p].user_input)
                  /\ IsTurnOf(p, store[local[p].assistant_pos], "assistant",
                              local[p].returned.s)
            /\ Cardinality({local["p1"].user_pos, local["p1"].assistant_pos,
                            local["p2"].user_pos, local["p2"].assistant_pos}) = 4

\* Both calls are done, the session holds user, user, assistant, assistant,
\* and the history the first call read holds the user message of the second
\* call without its answer.
C21_Witness ==
    /\ Together /\ SameSession
    /\ \A p \in callers : pc[p] = "done"
    /\ RolesOf(store, local["p1"].session_id) = <<"user", "user", "assistant", "assistant">>
    /\ Holds(local["p1"].session_history, "user", local["p2"].user_input)
    /\ \A i \in DOMAIN local["p1"].session_history :
          local["p1"].session_history[i].role # "assistant"

\* The documents the turn of p has inserted so far, in their order.
OwnDocs(p) ==
    (IF local[p].user_pos # 0 THEN <<store[local[p].user_pos]>> ELSE <<>>)
        \o (IF local[p].assistant_pos # 0 THEN <<store[local[p].assistant_pos]>> ELSE <<>>)

\* What the turn of p reads and sends when it runs alone on an empty
\* collection: the history is its user message, and the messages of the
\* selector and of the response are made from that history.
AloneHistory(p) ==
    retrieve_session_history(Returned(<<store[local[p].user_pos]>>), 0).value

AloneSent(p) ==
    Synthesize(local[p].tool,
               LlmInput(local[p].session_summary, AloneHistory(p), local[p].user_input),
               local[p].tool_result.v, local[p].user_input,
               RemoteText(answer_text)).sent

\* C22: when two calls in flight at once belong to different sessions, each
\* session holds exactly the messages of its own call, and the history a call
\* read, the messages it sent to the selector and the messages it sent for
\* its response are those of the call running alone: no message of one
\* session appears in what the other reads or sends.
C22_SessionsIsolated ==
    \A p \in callers :
        (Together /\ local[p].session_id # ""
                  /\ \A q \in callers \ {p} : local[q].session_id # local[p].session_id) =>
            /\ SelectSeq(store, LAMBDA doc : doc.session_id = local[p].session_id)
                    = OwnDocs(p)
            /\ Past(p, "read_history") => local[p].session_history = AloneHistory(p)
            /\ Past(p, "select")
                => local[p].selector_sent
                     = SelectorMessages(local[p].user_input, AloneHistory(p))
            /\ Past(p, "synthesize") => local[p].sent = AloneSent(p)

\* Two calls of different sessions are done and their inserts interleaved:
\* user of one, user of the other, then the two answers.
C22_Witness ==
    /\ Together /\ ~SameSession
    /\ \A p \in callers : pc[p] = "done"
    /\ Len(store) = 4
    /\ store[1].session_id # store[2].session_id
    /\ store[1].role = "user" /\ store[2].role = "user"
    /\ Len(local["p1"].sent) = 4
    /\ Len(local["p2"].session_history) = 1

\* --------------------------------------------- claims: the turn, continued

\* No insert and no read of the memory collection failed in the turn of p.
WorkingStore(p) ==
    local[p].failed \cap {"insert_user", "insert_assistant", "find"} = {}

\* The last two of the messages are the current user message, twice.
EndsWithUtteranceTwice(messages, user_input) ==
    /\ Len(messages) >= 2
    /\ messages[Len(messages)] = Message("user", user_input)
    /\ messages[Len(messages) - 1] = Message("user", user_input)

\* C23: in a turn with a working store the current user input is sent twice
\* to the selector and is twice in the conversation made for the response:
\* as the last turn of the history just read, and as the user message
\* appended after the history.
C23_UtteranceTwice ==
    \A p \in callers :
        (callers = {p} /\ WorkingStore(p)) =>
            LET l == local[p]
                n == Len(l.session_history)
            IN  /\ Past(p, "read_history")
                    => /\ n >= 1
                       /\ l.session_history[n].role = "user"
                       /\ l.session_history[n].content = l.user_input
                /\ Past(p, "select")
                    => EndsWithUtteranceTwice(l.selector_sent, l.user_input)
                /\ Past(p, "synthesize")
                    => EndsWithUtteranceTwice(ConversationOf(p), l.user_input)

\* ------------------------------------------------- claims: the analysis

\* The text holds the word, in any case of its letters.
HasWord(text, word) ==
    \E i \in 0..(Len(text) - Len(word)) :
        \A j \in DOMAIN word : LowerChar(text[i + j]) = word[j]

\* The type the claim gives a question.
ClaimedType(text) ==
    CASE HasWord(text, <<"w","h","a","t">>) -> "factual"
      [] ~HasWord(text, <<"w","h","a","t">>) /\ HasWord(text, <<"h","o","w">>) -> "procedural"
      [] ~HasWord(text, <<"w","h","a","t">>) /\ ~HasWord(text, <<"h","o","w">>)
            /\ HasWord(text, <<"w","h","y">>) -> "explanatory"
      [] OTHER -> "general"

\* The places of the messages with a "?".
QuestionsIn(user_messages) ==
    { i \in DOMAIN user_messages :
        \E k \in DOMAIN user_messages[i].content : user_messages[i].content[k] = "?" }

\* The number of questions of a type among the messages.
QuestionsOfType(user_messages, type) ==
    Cardinality({ i \in QuestionsIn(user_messages) :
                    ClaimedType(user_messages[i].content) = type })

\* What the claim says of a result that reports the questions: their number,
\* their types in the order of the messages, a most common type of maximal
\* count, "none" without a question.
ReportsQuestions(user_messages, result) ==
    LET questions == QuestionsIn(user_messages)
    IN  /\ {"total_questions", "question_types", "most_common_type"} \subseteq DOMAIN result
        /\ result.total_questions = Cardinality(questions)
        /\ Len(result.question_types) = Cardinality(questions)
        /\ \A i \in questions :
              result.question_types[Cardinality({ j \in questions : j <= i })]
                  = ClaimedType(user_messages[i].content)
        /\ questions = {} => result.most_common_type = "none"
        /\ questions # {}
              => /\ QuestionsOfType(user_messages, result.most_common_type) > 0
                 /\ \A type \in {"factual", "procedural", "explanatory", "general"} :
                       QuestionsOfType(user_messages, type)
                           <= QuestionsOfType(user_messages, result.most_common_type)

\* C24 as stated: analyze_question_patterns reports the questions of every
\* list of user messages, and most_common_type is "none" whenever no user
\* message holds a "?".
C24_PatternsAlways ==
    tool_last.op = "analyze_question_patterns"
        => ReportsQuestions(tool_last.user_messages, tool_last.result)

\* C24: analyze_question_patterns returns the empty dict for an empty list of
\* user messages; for any other list it counts exactly the user messages
\* with a "?", gives each the type factual, procedural, explanatory by the
\* first of what, how, why it holds in any case of the letters and general
\* otherwise, total_questions is their number, most_common_type a type of
\* maximal count, and "none" when no message holds a "?".
C24_QuestionPatterns ==
    tool_last.op = "analyze_question_patterns"
        => IF tool_last.user_messages = <<>>
           THEN tool_last.result = DictV(<<>>)
           ELSE ReportsQuestions(tool_last.user_messages, tool_last.result)

\* A call with three questions where two types tie, one of them given by
\* priority to a message with two of the words.
C24_Witness ==
    /\ tool_last.op = "analyze_question_patterns"
    /\ Len(tool_last.user_messages) = 3
    /\ tool_last.result.question_types = <<"factual", "procedural", "general">>
    /\ tool_last.user_messages[1].content = <<"h","o","w"," ","w","h","a","t","?">>
    /\ tool_last.result.most_common_type = "general"

\* ------------------------------------------- claims: the memory, continued

\* The collection holds a record of the session that is not a chat turn: an
\* important fact or a long-term record.
HoldsNonTurn(collection, session_id) ==
    \E i \in DOMAIN collection :
        collection[i].session_id = session_id /\ "role" \notin DOMAIN collection[i]

\* The messages are the chat turns in an order of non-decreasing timestamp.
IsHistoryOf(messages, turns) ==
    \E sorted \in SortedByTimestamp(turns) :
        /\ Len(messages) = Len(sorted)
        /\ \A i \in DOMAIN sorted :
              /\ messages[i].role = sorted[i].role
              /\ messages[i].content = sorted[i].content
              /\ messages[i].timestamp = sorted[i].timestamp

\* C25: when a session holds records stored by store_important_facts or
\* store_long_term_memory, retrieve_session_history still returns exactly the
\* chat turns of the session in timestamp order, and
\* analyze_conversation_context still reports their counts (the store
\* answering the query).
C25_NonTurnRecordsIgnored ==
    (/\ mem_last.op \in {"retrieve_session_history", "analyze_conversation_context"}
     /\ mem_last.ok
     /\ HoldsNonTurn(store, mem_last.session_id))
        => LET turns == TurnsOf(store, mem_last.session_id)
           IN  /\ (mem_last.op = "retrieve_session_history" /\ mem_last.limit = 0)
                    => IsHistoryOf(mem_last.result, turns)
               /\ (mem_last.op = "analyze_conversation_context" /\ turns # <<>>)
                    => /\ "total_messages" \in DOMAIN mem_last.result
                       /\ mem_last.result.total_messages = Len(turns)

\* The records retrieve_long_term_memory(memory_type) returns from a
\* collection when the store answers its query.
Retrievable(collection, memory_type) ==
    UNION { { retrieve_long_term_memory(cursor, long_term_limit).value[i] :
                i \in DOMAIN retrieve_long_term_memory(cursor, long_term_limit).value } :
            cursor \in FindLongTerm(collection, memory_type) \ {Raised} }

\* C26: a record stored by store_long_term_memory stays retrievable through
\* retrieve_long_term_memory of its type after every later call on any
\* session, clear_session_memory of the session that stored it included: no
\* call removes a record from what retrieve_long_term_memory returns.
C26_LongTermPersists ==
    [][\A memory_type \in MemoryTypes :
          Retrievable(store, memory_type) \subseteq Retrievable(store', memory_type)]_vars

\* ----------------------------------------- claims: the selector, continued

\* C27: for an utterance with a domain keyword tool_selector never returns
\* web_search_tool, whether the tool comes from the decision of the remote
\* model, from the fallback parsing, from the two overrides or from the
\* handler of a failed remote call.
C27_DomainNeverWebSearch ==
    (sel_pc = "returned" /\ HasDomainKeyword(sel_input))
        => sel_result.tool # Str(web_search_tool_name)

\* -------------------------------------------- claims: the tools, continued

\* C28: every document hybrid_search_tool returns, from its try block or from
\* its except, carries search_type "vector" or "text", so that
\* process_hybrid_search_response puts each document of a non-empty result
\* in exactly one of its two sections.
C28_EveryDocumentTagged ==
    tool_last.op = "hybrid_search_tool" =>
        LET context == tool_last.result.value
        IN  /\ \A i \in DOMAIN context :
                  /\ "search_type" \in DOMAIN context[i]
                  /\ context[i].search_type \in {"vector", "text"}
            /\ Len(OfSearchType(context, "vector")) + Len(OfSearchType(context, "text"))
                  = Len(context)

\* --------------------------------------------- claims: the store of turns

\* C29: in every state reached by turns that run one at a time, with inserts
\* that may fail one by one and no clear, the assistant messages persisted
\* for a session never outnumber its user messages, and every assistant
\* message comes after a user message of its session.
C29_AssistantFollowsUser ==
    callers = {"p1"} =>
        \A s \in Sessions :
            LET turns == TurnsOf(store, s)
            IN  /\ TurnsWithRole(store, s, "assistant") <= TurnsWithRole(store, s, "user")
                /\ \A i \in DOMAIN turns :
                      turns[i].role = "assistant"
                          => \E j \in 1..(i - 1) : turns[j].role = "user"

\* ------------------------------------------ claims: the summary of a turn

\* The conversation made for the response holds a summary message.
HasSummaryMessage(p) ==
    \E i \in DOMAIN ConversationOf(p) :
        /\ ConversationOf(p)[i].role = "system"
        /\ SubSeq(ConversationOf(p)[i].content, 1, Len(summary_prefix)) = summary_prefix

\* C30: the conversation made for the response holds a "Previous
\* conversation summary" system message only when the remote model produced
\* a summary in the turn; when the summary call failed or found no history
\* there is no such message, and the instruction of a response made by the
\* remote model is the first message sent.
C30_SummaryOnlyWhenMade ==
    \A p \in callers :
        Past(p, "summary") =>
            /\ HasSummaryMessage(p) => local[p].summary_made
            /\ (~local[p].summary_made /\ Past(p, "synthesize")
                    /\ local[p].generation_calls > 0)
                    => local[p].sent[1] = SystemInstruction(p)

====
